---- MODULE Spec2Model ----
(***************************************************************************)
(* Model of the screenshot browser pool (OptimizedBrowserPool, getPage,    *)
(* releasePage, takeScreenshot) and of the resource manager's memory       *)
(* pressure signal of bysages/lens.                                        *)
(*                                                                         *)
(* JavaScript runs one task at a time: everything between two awaits is    *)
(* one atomic step.  Every action below is one such run-to-suspension      *)
(* segment of the code; a getPage call that is suspended in an await is a  *)
(* slot of `calls` whose pc names the await it is parked in.               *)
(***************************************************************************)
EXTENDS Integers, Sequences, FiniteSets, TLC

\* ---------------------------------------------------------------- bounds
\* getPage calls that may be in flight (suspended) at the same time
MaxCalls == 2
\* takeScreenshot invocations alive at once (in getPage or in their try block)
MaxShots == 2
\* browser processes that may crash (disconnect) in one behaviour, where
\* crashes are explored
MaxCrashes == 1
\* a burst of requests for one and the same fingerprint: BurstCalls of them
\* reach a cold pool together, or up to BurstShots of them are alive at once
\* having entered getPage one after the other
BurstCalls == 3
BurstShots == 6

\* ---------------------------------------------------- program constants
\* private readonly maxBrowsers = 2
PoolMaxBrowsers == 2
\* private readonly maxPagesPerBrowser = 5
PoolMaxPagesPerBrowser == 5
\* isMemoryPressure: heapUsageRatio > 0.85, kept as a percentage
PressureThresholdPct == 85

VARIABLES
    browsers,            \* this.browsers: PooledBrowser[]
    maxBrowsers,         \* this.maxBrowsers
    maxPagesPerBrowser,  \* this.maxPagesPerBrowser
    calls,               \* getPage invocations, by slot
    held,                \* takeScreenshot invocations inside their try block
    crashes,             \* browser processes that have disconnected so far
    usage,               \* process.memoryUsage(): heapUsed, heapTotal
    lastResult,          \* how the takeScreenshot promise settled last ended
    load                 \* the traffic of this behaviour: its bounds

\* State of the collaborators of the pool: the cache accessors, the HTTP
\* endpoints, the resource manager
VARIABLES
    cacheOp,             \* the cacheStorage accessor call made last: what it was
                         \* given, what it asked of `storage`, what it returned
    lastWrite,           \* the entry `storage` was last asked to hold
    keyed,               \* the last two requests of the screenshot endpoint:
                         \* their parsed options and their cache keys
    response,            \* the Response the screenshot endpoint returned last
    shutdown,            \* OptimizedBrowserPool.shutdown: where its loop stands
    process,             \* the Node process: "running" or "exited"
    cleaning,            \* OptimizedBrowserPool.cleanup: suspended at its await or not,
                         \* the browsers it keeps and those it called close() on
    launching,           \* createBrowser: PLAYWRIGHT_BROWSER_CONFIG and each call's launches
    manager,             \* ResourceManager: cleanupCallbacks and what its sweeps invoked
    image,               \* image.ts: processingCount, cachedIPXInstance, /img/* requests
    retry,               \* takeScreenshotWithRetry: the loop of the call under way
    layers,              \* createCacheStorage: the environment read and the layers built
    store,               \* `storage`: the entries it holds and the clearCacheByType
                         \* call made last
    fonts,               \* fonts/cache.ts: cachedFontsList, fontsListCacheTime, the
                         \* metadata cache, the clock and the last getCachedFontsList
    capture              \* captureScreenshot: what the request that renders (or, when
                         \* none does, the last request) did with the screenshots
                         \* cache and the pool, in order

poolVars == <<browsers, maxBrowsers, maxPagesPerBrowser, calls, held, crashes, usage,
              lastResult, load>>
cacheVars == <<cacheOp, lastWrite>>
lifeVars == <<shutdown, process, cleaning, launching>>
serverVars == <<manager, image>>
moreVars == <<retry, layers, capture, store, fonts>>
otherVars == <<cacheVars, keyed, response, lifeVars, serverVars, moreVars>>
vars == <<poolVars, otherVars>>

Slots == 1..BurstCalls

\* ScreenshotOptions as far as the pool reads them.  0 stands for an omitted
\* (undefined) width or height: both are falsy in `options.width || 1280`.
OptionSet ==
    { [width |-> 0,    height |-> 0,   darkMode |-> FALSE, mobile |-> FALSE],
      [width |-> 1280, height |-> 720, darkMode |-> FALSE, mobile |-> FALSE],
      [width |-> 800,  height |-> 600, darkMode |-> FALSE, mobile |-> FALSE] }

\* targetViewport / targetDarkMode / targetMobile of getPage, and the same
\* defaults in createContext and createBrowser
Target(options) ==
    [ viewport   |-> [ width  |-> IF options.width = 0 THEN 1280 ELSE options.width,
                       height |-> IF options.height = 0 THEN 720 ELSE options.height ],
      isDarkMode |-> options.darkMode,
      isMobile   |-> options.mobile ]

NoTarget == [ viewport |-> [width |-> 0, height |-> 0],
              isDarkMode |-> FALSE, isMobile |-> FALSE ]
\* A BrowserContext is known by the fingerprint it was created for and by
\* whether it still is `context` of the pooled browser it was created in
\* (current) or has been replaced there by a rebuild.
NoContext == [ target |-> NoTarget, current |-> FALSE ]
NewContext(target) == [ target |-> target, current |-> TRUE ]

IdleCall(pc) ==
    [ pc |-> pc, target |-> NoTarget, bestBrowser |-> 0,
      context |-> NoContext, pressured |-> FALSE, needsNewContext |-> FALSE ]

\* ResourceManager.isMemoryPressure: heapUsed / heapTotal > 0.85
isMemoryPressure(u) == u.heapUsed * 100 > PressureThresholdPct * u.heapTotal

\* ------------------------------------------------------------- identity
\* Browsers and pages are told apart by an id.  A new object
\* takes the smallest id no live reference holds.
RECURSIVE SeqRange(_)
SeqRange(s) == IF s = <<>> THEN {} ELSE {Head(s)} \cup SeqRange(Tail(s))

BrowserIds ==
    { browsers[i].id : i \in 1..Len(browsers) }
    \cup { calls[c].bestBrowser : c \in Slots }
    \cup { h.browser : h \in held }

PagesInPool ==
    UNION { SeqRange(browsers[i].availablePages) : i \in 1..Len(browsers) }

PageIds ==
    { p.pid : p \in PagesInPool } \cup { h.page.pid : h \in held }

Fresh(used) == CHOOSE n \in 1..(Cardinality(used) + 1) : n \notin used

\* Page ids carry no meaning beyond telling pages apart, so every step
\* renames each page after the place a walk through the pool first meets
\* it: its browser and position in availablePages, or else the handle that
\* holds it (handles ordered by what else they hold).  The renaming is
\* one-to-one, so a page that sat in two places would keep one name in both.
Targets == { Target(o) : o \in OptionSet }
TargetLess(t, u) ==
    \/ t.viewport.width < u.viewport.width
    \/ /\ t.viewport.width = u.viewport.width
       /\ \/ t.viewport.height < u.viewport.height
          \/ /\ t.viewport.height = u.viewport.height
             /\ \/ (~t.isDarkMode /\ u.isDarkMode)
                \/ /\ t.isDarkMode = u.isDarkMode
                   /\ ~t.isMobile /\ u.isMobile
TargetCode(t) == Cardinality({ u \in Targets : TargetLess(u, t) })
Bit(b) == IF b THEN 1 ELSE 0
HandleRank(h) ==
    (((h.browser * 8 + TargetCode(h.target)) * 8 + TargetCode(h.page.context.target)) * 2
        + Bit(h.page.context.current)) * 4 + Bit(h.reused) * 2 + Bit(h.pressured)
Least(S) == CHOOSE x \in S : \A y \in S : x <= y
AvailCodes(bs, pid) ==
    UNION { { i * 64 + k : k \in { j \in 1..Len(bs[i].availablePages) :
                                     bs[i].availablePages[j].pid = pid } }
            : i \in 1..Len(bs) }
HeldCode(hs, h) ==
    4096 + HandleRank(h) * 64
         + Cardinality({ g \in hs : HandleRank(g) = HandleRank(h) /\ g.page.pid < h.page.pid })
PageName(bs, hs, pid) ==
    IF AvailCodes(bs, pid) # {}
    THEN Least(AvailCodes(bs, pid))
    ELSE Least({ HeldCode(hs, h) : h \in { g \in hs : g.page.pid = pid } })
Renamed(bs, hs) ==
    [ browsers |-> [i \in 1..Len(bs) |->
                        [bs[i] EXCEPT !.availablePages =
                            [k \in 1..Len(bs[i].availablePages) |->
                                [bs[i].availablePages[k] EXCEPT
                                    !.pid = PageName(bs, hs, @)]]]],
      held |-> { [h EXCEPT !.page.pid = PageName(bs, hs, @)] : h \in hs } ]

IndexOf(id) == CHOOSE i \in 1..Len(browsers) : browsers[i].id = id
InPool(id) == \E i \in 1..Len(browsers) : browsers[i].id = id

InFlight == { c \in Slots : calls[c].pc # "idle" }

\* ------------------------------------------------------------------ Init
\* No accessor call made yet, nothing written
NoCacheOp ==
    [ call |-> [op |-> "none", ns |-> "none", items |-> <<>>],
      storageCalls |-> <<>>,
      answers |-> <<>>,
      returned |-> [status |-> "none", void |-> TRUE, values |-> <<>>] ]
NoWrite == [ns |-> "none", key |-> "", storageKey |-> ""]
InitCache ==
    /\ cacheOp = NoCacheOp
    /\ lastWrite = NoWrite

\* A request that leaves width, height, darkMode and mobile out
DefaultOptions == [width |-> 0, height |-> 0, darkMode |-> FALSE, mobile |-> FALSE]

\* process.env as createCacheStorage reads it, "" standing for a variable
\* that is not set (an empty string is as falsy as undefined); here nothing
\* is set and the module has not been loaded
NoEnv ==
    [REDIS_URL |-> "",
     MINIO_ENDPOINT |-> "", MINIO_ACCESS_KEY |-> "", MINIO_SECRET_KEY |-> "",
     S3_ENDPOINT |-> "", S3_ACCESS_KEY_ID |-> "", S3_SECRET_ACCESS_KEY |-> ""]
NoLayers == [env |-> NoEnv, built |-> FALSE, layers |-> <<>>]

\* takeScreenshotWithRetry has not been called
NoRetry ==
    [pc |-> "idle", maxRetries |-> 0, options |-> DefaultOptions, attempt |-> 0,
     calls |-> 0, waits |-> <<>>,
     lastError |-> [attempt |-> -1, message |-> "null"],
     thrown |-> [attempt |-> -1, message |-> "none"]]

\* The collaborators other than createBrowser and the storage module before
\* any of them has acted
\* fonts/cache.ts as the module is loaded: `let cachedFontsList = null`,
\* `let fontsListCacheTime = 0`, nothing in the metadata cache, no call made
NoFonts ==
    [ cachedFontsList |-> [name |-> "null"], fontsListCacheTime |-> 0,
      now |-> 0, metadata |-> {},
      last |-> [provider |-> "", config |-> [name |-> "null"],
                returned |-> [name |-> "null"]] ]

InitServer ==
    /\ InitCache
    /\ keyed = <<>>
    /\ response = [status |-> 0, xCache |-> "", retryAfter |-> 0, details |-> ""]
    /\ shutdown = [pc |-> "idle", index |-> 0, detached |-> FALSE, array |-> <<>>,
                   attempted |-> {}, failed |-> {}, busy |-> {}, skipped |-> {}]
    /\ process = "running"
    /\ cleaning = [pc |-> "idle", keepBrowsers |-> <<>>, closed |-> {}]
    /\ manager = [cleanupCallbacks |-> <<>>, sweeps |-> 0,
                  invoked |-> [cb \in {"pool", "ipx"} |-> 0],
                  run |-> [callbacks |-> <<>>, outcomes |-> <<>>, invoked |-> <<>>,
                           promises |-> <<>>, result |-> "none"]]
    /\ image = [processingCount |-> 0, cachedIPXInstance |-> FALSE, inFlight |-> 0,
                arrived |-> 0, status |-> 0,
                last |-> [pressured |-> FALSE, admitted |-> FALSE, status |-> 0,
                          retryAfter |-> 0, before |-> 0, after |-> 0]]
    /\ retry = NoRetry
    /\ capture = [key |-> "", events |-> <<>>, done |-> FALSE]
    /\ store = [entries |-> {}, cleared |-> "none", before |-> {}]
    /\ fonts = NoFonts

\* The collaborators other than createBrowser before any of them has acted
InitRest ==
    /\ InitServer
    /\ layers = NoLayers

\* No getPage call has had to launch a browser
NoLaunching(config) ==
    [browserConfig |-> config,
     attempts |-> [c \in Slots |-> <<>>],
     result |-> [c \in Slots |-> "none"]]

\* The collaborators before any of them has acted
InitOthers ==
    /\ launching = NoLaunching("auto")
    /\ InitRest

\* new OptimizedBrowserPool(): no browser, no call
InitBrowsers ==
    /\ browsers = <<>>
    /\ calls = [c \in Slots |-> IdleCall("idle")]
    /\ held = {}
    /\ crashes = 0
    /\ usage = [heapUsed |-> 50, heapTotal |-> 100]
    /\ lastResult = "none"

InitPool ==
    /\ InitBrowsers
    /\ InitOthers

Init ==
    /\ InitPool
    /\ maxBrowsers = PoolMaxBrowsers
    /\ maxPagesPerBrowser = PoolMaxPagesPerBrowser
    /\ load = [calls |-> MaxCalls, shots |-> MaxShots, crashes |-> 0,
               options |-> OptionSet]

\* A burst of requests with default options, entering getPage together or
\* one after the other
InitBurst ==
    /\ InitPool
    /\ maxBrowsers = PoolMaxBrowsers
    /\ maxPagesPerBrowser = PoolMaxPagesPerBrowser
    /\ load \in { [calls |-> BurstCalls, shots |-> BurstCalls, crashes |-> 0,
                    options |-> {DefaultOptions}],
                   [calls |-> 1, shots |-> BurstShots, crashes |-> 0,
                    options |-> {DefaultOptions}] }


\* --------------------------------------------------------------- getPage
\* isCompatible of the search loop
IsCompatible(b, target) ==
    /\ b.viewport.width = target.viewport.width
    /\ b.viewport.height = target.viewport.height
    /\ b.isDarkMode = target.isDarkMode
    /\ b.isMobile = target.isMobile

\* The "perfect match" test of the loop
IsPerfectMatch(b, target) ==
    /\ IsCompatible(b, target)
    /\ Len(b.availablePages) > 0
    /\ b.activePagesCount < maxPagesPerBrowser

\* The single-pass search: `for (const browser of this.browsers)` from index
\* i on, with acc the (bestBrowser, needsNewContext) pair reached so far.
\* best is an index into bs, 0 for null.  A perfect match breaks out of the
\* loop and leaves needsNewContext as the earlier iterations set it.
RECURSIVE Search(_, _, _, _)
Search(bs, i, target, acc) ==
    IF i > Len(bs) THEN acc
    ELSE IF ~bs[i].connected THEN Search(bs, i + 1, target, acc)
    ELSE IF IsPerfectMatch(bs[i], target)
         THEN [best |-> i, needsNewContext |-> acc.needsNewContext]
    ELSE IF acc.best = 0
            \/ bs[i].activePagesCount < bs[acc.best].activePagesCount
         THEN Search(bs, i + 1, target,
                     [best |-> i, needsNewContext |-> ~IsCompatible(bs[i], target)])
    ELSE Search(bs, i + 1, target, acc)

\* `page = bestBrowser.availablePages.pop()`: the last page and what is left
PopPageKeep(pages) ==
    [ page |-> pages[Len(pages)], rest |-> pages ]
PopPage(pages) ==
    [ page |-> pages[Len(pages)], rest |-> SubSeq(pages, 1, Len(pages) - 1) ]

\* `bestBrowser.activePagesCount++; bestBrowser.lastUsed = Date.now()`.
\* lastUsed is kept as the time gone by since, "fresh" being none to speak of.
CountedOnly(b) == [b EXCEPT !.activePagesCount = @ + 1]
CheckedOut(b) == [b EXCEPT !.activePagesCount = @ + 1, !.lastUsed = "fresh"]

\* The handle getPage returns: the page and the releasePage closure, which
\* captures bestBrowser and page; target is the request it was made for,
\* reused tells a page popped from availablePages from one createPage made.
Handle(page, browserId, target, reused, pressured) ==
    [ page |-> page, browser |-> browserId, target |-> target,
      reused |-> reused, pressured |-> pressured, reset |-> FALSE ]

\* `if (needsNewContext) { await this.quickResetPage(page) }` on the page
\* popped from availablePages: about:blank is loaded under that condition
QuickReset(h, needsNewContext) == [h EXCEPT !.reset = needsNewContext]

\* getPage from its first line to its first await (or to its return / throw
\* when it meets none).
GetPageStart(c, options) ==
    /\ calls[c].pc = "idle"
    /\ options \in load.options
    /\ \A d \in Slots : d < c => calls[d].pc # "idle"
    /\ Cardinality(InFlight) < load.calls
    /\ Cardinality(InFlight) + Cardinality(held) < load.shots
    /\ LET target == Target(options)
           found == Search(browsers, 1, target, [best |-> 0, needsNewContext |-> FALSE])
           pressured == isMemoryPressure(usage)
           call == [IdleCall("idle") EXCEPT !.target = target, !.pressured = pressured]
       IN
       IF found.best = 0 THEN
            IF Len(browsers) < maxBrowsers
            THEN \* bestBrowser = await this.createBrowser(options)
                 /\ calls' = [calls EXCEPT ![c] = [call EXCEPT !.pc = "launch"]]
                 /\ UNCHANGED <<browsers, held>>
            ELSE \* throw new Error("No available browsers in pool")
                 /\ UNCHANGED <<calls, browsers, held>>
       ELSE LET b == browsers[found.best] IN
            IF found.needsNewContext
            THEN \* await bestBrowser.context.close(), then
                 \* await this.createContext(bestBrowser.browser, options)
                 /\ calls' = [calls EXCEPT ![c] =
                        [call EXCEPT !.pc = "rebuild", !.bestBrowser = b.id,
                                     !.needsNewContext = TRUE]]
                 /\ UNCHANGED <<browsers, held>>
            ELSE IF Len(b.availablePages) > 0
            THEN \* pop, no reset (needsNewContext is false), count, return
                 LET popped == PopPage(b.availablePages)
                     after == Renamed(
                         [browsers EXCEPT ![found.best] =
                             CheckedOut([b EXCEPT !.availablePages = popped.rest])],
                         held \cup {QuickReset(
                                       Handle(popped.page, b.id, target, TRUE, pressured),
                                       found.needsNewContext)})
                 IN
                 /\ browsers' = after.browsers
                 /\ held' = after.held
                 /\ UNCHANGED calls
            ELSE \* page = await this.createPage(bestBrowser, options):
                 \* context.newPage() is called on the context of this moment
                 /\ calls' = [calls EXCEPT ![c] =
                        [call EXCEPT !.pc = "createPage", !.bestBrowser = b.id,
                                     !.context = b.context]]
                 /\ UNCHANGED <<browsers, held>>
    /\ UNCHANGED <<maxBrowsers, maxPagesPerBrowser, crashes, usage, lastResult, load>>

\* The pooledBrowser record createBrowser builds
NewPooledBrowser(id, target) ==
    [ id |-> id, connected |-> TRUE,
      context |-> NewContext(target),
      availablePages |-> <<>>, activePagesCount |-> 0,
      lastUsed |-> "fresh",
      viewport |-> target.viewport,
      isDarkMode |-> target.isDarkMode, isMobile |-> target.isMobile ]

\* createBrowser from the resolution of its awaits (playwright.launch, then
\* createContext; neither touches the pool): push the browser, return to
\* getPage (needsNewContext = false), no available page, so createPage
\* starts on the new context.
BrowserCreated(c) ==
    /\ calls[c].pc = "launch"
    /\ LET b == NewPooledBrowser(Fresh(BrowserIds), calls[c].target) IN
       /\ browsers' = Append(browsers, b)
       /\ calls' = [calls EXCEPT ![c].pc = "createPage", ![c].bestBrowser = b.id,
                                 ![c].context = b.context]
    /\ UNCHANGED <<maxBrowsers, maxPagesPerBrowser, held, crashes, usage, lastResult, load>>

\* The rebuild of lines 108-115: new context, availablePages = [], and the
\* request's viewport / darkMode / mobile recorded on the browser
RebuiltKeepingPages(b, target) ==
    [b EXCEPT !.context = NewContext(target),
              !.viewport = target.viewport,
              !.isDarkMode = target.isDarkMode,
              !.isMobile = target.isMobile]
Rebuilt(b, target) ==
    [b EXCEPT !.context = NewContext(target),
              !.availablePages = <<>>,
              !.viewport = target.viewport,
              !.isDarkMode = target.isDarkMode,
              !.isMobile = target.isMobile]

\* The old context is closed and createContext resolved (the two awaits of
\* lines 107-108; the pool is not touched between them): the browser is
\* rebuilt for the request, its list of available pages is empty, so
\* createPage starts on the new context.  quickResetPage is never reached:
\* it needs needsNewContext and a non-empty availablePages at once.
ContextCreated(c) ==
    /\ calls[c].pc = "rebuild"
    /\ LET id == calls[c].bestBrowser
           after == Renamed(
               IF InPool(id)
               THEN [browsers EXCEPT ![IndexOf(id)] = Rebuilt(@, calls[c].target)]
               ELSE browsers,
               { IF h.browser = id
                 THEN [h EXCEPT !.page.context.current = FALSE]
                 ELSE h : h \in held })
       IN
       /\ browsers' = after.browsers
       \* the context this browser had is no longer its current one
       /\ calls' = [d \in Slots |->
                      IF d = c
                      THEN [calls[c] EXCEPT !.pc = "createPage",
                                            !.context = NewContext(calls[c].target)]
                      ELSE IF calls[d].bestBrowser = id
                      THEN [calls[d] EXCEPT !.context.current = FALSE]
                      ELSE calls[d]]
       /\ held' = after.held
    /\ UNCHANGED <<maxBrowsers, maxPagesPerBrowser, crashes, usage, lastResult, load>>

\* createPage resolved: count the page, refresh lastUsed, return the handle
PageCreated(c) ==
    /\ calls[c].pc = "createPage"
    /\ LET id == calls[c].bestBrowser
           page == [pid |-> Fresh(PageIds), context |-> calls[c].context]
           after == Renamed(
               IF InPool(id)
               THEN [browsers EXCEPT ![IndexOf(id)] = CheckedOut(@)]
               ELSE browsers,
               held \cup {Handle(page, id, calls[c].target, FALSE, calls[c].pressured)})
       IN
       /\ browsers' = after.browsers
       /\ held' = after.held
       /\ calls' = [calls EXCEPT ![c] = IdleCall("idle")]
    /\ UNCHANGED <<maxBrowsers, maxPagesPerBrowser, crashes, usage, lastResult, load>>

\* An awaited Playwright call (launch with its fallback, context close or
\* creation, newPage, page set-up) rejects: getPage throws from that await.
AwaitRejected(c) ==
    /\ calls[c].pc \in {"launch", "rebuild", "createPage"}
    /\ calls' = [calls EXCEPT ![c] = IdleCall("idle")]
    /\ UNCHANGED <<browsers, maxBrowsers, maxPagesPerBrowser, held, crashes, usage, lastResult, load>>

\* The rebuild interrupted between its two awaits: context.close() of line
\* 107 has resolved, createContext of line 108 rejects, and getPage throws
\* before lines 112-115.  The browser keeps the context that was closed, its
\* recorded fingerprint and its list of available pages.
ContextClosed(b) ==
    [b EXCEPT !.context.current = FALSE,
              !.availablePages =
                  [j \in 1..Len(b.availablePages) |->
                      [b.availablePages[j] EXCEPT !.context.current = FALSE]]]

CreateContextRejected(c) ==
    /\ calls[c].pc = "rebuild"
    /\ LET id == calls[c].bestBrowser
           after == Renamed(
               IF InPool(id)
               THEN [browsers EXCEPT ![IndexOf(id)] = ContextClosed(@)]
               ELSE browsers,
               { IF h.browser = id
                 THEN [h EXCEPT !.page.context.current = FALSE]
                 ELSE h : h \in held })
       IN
       /\ browsers' = after.browsers
       /\ calls' = [d \in Slots |->
                      IF d = c
                      THEN IdleCall("idle")
                      ELSE IF calls[d].bestBrowser = id
                      THEN [calls[d] EXCEPT !.context.current = FALSE]
                      ELSE calls[d]]
       /\ held' = after.held
    /\ UNCHANGED <<maxBrowsers, maxPagesPerBrowser, crashes, usage, lastResult, load>>

\* ------------------------------------------------- takeScreenshot, release
\* The releasePage closure applied to the browser it captured
Released(b, page) ==
    [b EXCEPT !.activePagesCount = @ - 1,
              !.availablePages = Append(@, page),
              !.lastUsed = "fresh"]

\* What the promise of takeScreenshot settles with
Settlement(outcome) == IF outcome = "ok" THEN "resolved" ELSE "rejected"

\* try { goto; screenshot } finally { await releasePage() }: the finally
\* block runs for every way the try block ends
FinallyOnSuccessOnly(outcome) == outcome = "ok"
FinallyRuns(outcome) == outcome \in {"ok", "throw", "timeout"}

Outcomes == {"ok", "throw", "timeout"}

\* The try block of takeScreenshot ends (capture returned, navigation or
\* capture threw, or the 10 s timeout fired) and the finally block runs.
TakeScreenshotSettled(h, outcome) ==
    /\ h \in held
    /\ LET after == Renamed(
               IF FinallyRuns(outcome) /\ InPool(h.browser)
               THEN [browsers EXCEPT ![IndexOf(h.browser)] =
                        Released(@, h.page)]
               ELSE browsers,
               held \ {h})
       IN
       /\ browsers' = after.browsers
       /\ held' = after.held
    /\ lastResult' = Settlement(outcome)
    /\ UNCHANGED <<maxBrowsers, maxPagesPerBrowser, calls, crashes, usage, load>>

\* ----------------------------------------------------------- environment
\* A browser process dies: browser.isConnected() turns false
BrowserDisconnected(i) ==
    /\ i \in 1..Len(browsers)
    /\ browsers[i].connected
    /\ crashes < load.crashes
    /\ crashes' = crashes + 1
    /\ browsers' = [browsers EXCEPT ![i].connected = FALSE]
    /\ UNCHANGED <<maxBrowsers, maxPagesPerBrowser, calls, held, usage, lastResult, load>>

\* A change of the heap figures process.memoryUsage() reports
MemoryUsageChanged(u) ==
    /\ u \in { [heapUsed |-> 50, heapTotal |-> 100],
                [heapUsed |-> 85, heapTotal |-> 100],
                [heapUsed |-> 90, heapTotal |-> 100] }
    /\ u # usage
    /\ usage' = u
    /\ UNCHANGED <<browsers, maxBrowsers, maxPagesPerBrowser, calls, held, crashes, lastResult, load>>

\* The pool under requests for several fingerprints
Next ==
    \/ \E c \in Slots, options \in OptionSet :
            GetPageStart(c, options) /\ UNCHANGED otherVars
    \/ \E c \in Slots : BrowserCreated(c) /\ UNCHANGED otherVars
    \/ \E c \in Slots : ContextCreated(c) /\ UNCHANGED otherVars
    \/ \E c \in Slots : PageCreated(c) /\ UNCHANGED otherVars
    \/ \E c \in Slots : AwaitRejected(c) /\ UNCHANGED otherVars
    \/ \E h \in held, outcome \in Outcomes :
            TakeScreenshotSettled(h, outcome) /\ UNCHANGED otherVars

Spec == Init /\ [][Next]_vars

\* The same with browser processes that crash
NextCrash ==
    \/ Next
    \/ \E i \in 1..Len(browsers) : BrowserDisconnected(i) /\ UNCHANGED otherVars

\* The same with a heap that fills and empties
NextPressure ==
    \/ Next
    \/ \E u \in [heapUsed : {50, 85, 90}, heapTotal : {100}] :
            MemoryUsageChanged(u) /\ UNCHANGED otherVars

SpecPressure == Init /\ [][NextPressure]_vars

\* A pool built with maxBrowsers = 1 and maxPagesPerBrowser = 1
InitOneOne ==
    /\ InitPool
    /\ maxBrowsers = 1
    /\ maxPagesPerBrowser = 1
    /\ load = [calls |-> MaxCalls, shots |-> MaxShots, crashes |-> MaxCrashes,
               options |-> OptionSet]

SpecOneOne == InitOneOne /\ [][NextCrash]_vars

\* What a burst of requests for one fingerprint can do
NextBurst ==
    \/ \E c \in Slots, options \in OptionSet :
            GetPageStart(c, options) /\ UNCHANGED otherVars
    \/ \E c \in Slots : BrowserCreated(c) /\ UNCHANGED otherVars
    \/ \E c \in Slots : PageCreated(c) /\ UNCHANGED otherVars
    \/ \E c \in Slots : AwaitRejected(c) /\ UNCHANGED otherVars
    \/ \E h \in held, outcome \in Outcomes :
            TakeScreenshotSettled(h, outcome) /\ UNCHANGED otherVars

SpecBurst == InitBurst /\ [][NextBurst]_vars

\* ------------------------------------------------------- cache accessors
\* Bound on the number of items of one getMultiple / setMultiple call
MaxBatch == 2

\* JavaScript `undefined` where a number is expected (an omitted ttl)
Undefined == 0 - 1

Namespaces == {"screenshots", "ogImages", "fonts", "favicons", "metadata"}

\* The prefix each member of cacheStorage puts before the caller's key
PrefixMetaBare(ns) ==
    CASE ns = "screenshots" -> "screenshot:"
      [] ns = "ogImages" -> "og:"
      [] ns = "fonts" -> "font:"
      [] ns = "favicons" -> "favicon:"
      [] ns = "metadata" -> ""
Prefix(ns) ==
    CASE ns = "screenshots" -> "screenshot:"
      [] ns = "ogImages" -> "og:"
      [] ns = "fonts" -> "font:"
      [] ns = "favicons" -> "favicon:"
      [] ns = "metadata" -> "meta:"

\* prefix + key, `meta:${key}`
StorageKey(ns, key) == Prefix(ns) \o key

\* The default of the ttl parameter of each member's own set
SetDefaultTtl(ns) ==
    CASE ns = "screenshots" -> 86400
      [] ns = "ogImages" -> 86400
      [] ns = "fonts" -> 86400 * 30
      [] ns = "favicons" -> 86400 * 7
      [] ns = "metadata" -> 86400

\* A default parameter value applies when the argument is undefined
DefaultParam(arg, default) == IF arg = Undefined THEN default ELSE arg

\* metadata goes through getItem / setItem, the others through the Raw calls
SetOp(ns) == IF ns = "metadata" THEN "setItem" ELSE "setItemRaw"
GetOp(ns) == IF ns = "metadata" THEN "getItem" ELSE "getItemRaw"

\* Keys callers pass, some of them spelt like another namespace's prefix
CacheKeys == {"a", "og:a", "font:a", ":a"}
BatchKeys == {"a", "og:a"}
TtlArgs == {Undefined, 60}
Payloads == {"v1"}

\* How a promise returned by `storage` settles
GetAnswers ==
    { [status |-> "fulfilled", value |-> "null"],
      [status |-> "fulfilled", value |-> "v1"],
      [status |-> "rejected", value |-> "error"] }
SetAnswers ==
    { [status |-> "fulfilled", value |-> "undefined"],
      [status |-> "rejected", value |-> "error"] }

\* `return await p` / `await p` in an async function: the result of p
Awaited(answer, void) ==
    [ status |-> answer.status, void |-> void,
      values |-> IF void \/ answer.status = "rejected" THEN <<>> ELSE <<answer.value>> ]

\* Promise.all(promises): rejects as soon as one of them rejects
PromiseAll(answers) ==
    IF \E i \in 1..Len(answers) : answers[i].status = "rejected"
    THEN [status |-> "rejected", void |-> FALSE, values |-> <<>>]
    ELSE [status |-> "fulfilled", void |-> FALSE, values |-> answers]
\* Promise.allSettled(promises): always fulfils, with one { status, value |
\* reason } per promise in the order of the promises
AllSettled(answers) ==
    [status |-> "fulfilled", void |-> FALSE, values |-> answers]

\* `await x;` as the last statement of a function that returns nothing
Discarded(result) == [result EXCEPT !.void = TRUE, !.values = <<>>]

\* The entry the last fulfilled set of a call asked `storage` to hold
RECURSIVE Written(_, _, _, _)
Written(ns, items, answers, before) ==
    IF items = <<>> THEN before
    ELSE Written(ns, Tail(items), Tail(answers),
                 IF Head(answers).status = "fulfilled"
                 THEN [ns |-> ns, key |-> Head(items).key,
                       storageKey |-> StorageKey(ns, Head(items).key)]
                 ELSE before)

exceptCache == <<poolVars, keyed, response, lifeVars, serverVars, moreVars>>

\* cacheStorage.<ns>.set(key, value, ttl).  The calls are looked at one at
\* a time: each starts from NoCacheOp and leaves its record in cacheOp.
AccessorSet(ns, key, value, ttl, answer) ==
    LET items == <<[key |-> key, value |-> value, ttl |-> ttl]>> IN
    /\ cacheOp = NoCacheOp
    /\ cacheOp' =
         [ call |-> [op |-> "set", ns |-> ns, items |-> items],
           storageCalls |-> << [op |-> SetOp(ns), key |-> StorageKey(ns, key),
                                value |-> value,
                                ttl |-> DefaultParam(ttl, SetDefaultTtl(ns))] >>,
           answers |-> <<answer>>,
           returned |-> Awaited(answer, TRUE) ]
    /\ lastWrite' = Written(ns, items, <<answer>>, lastWrite)
    /\ UNCHANGED exceptCache

\* cacheStorage.<ns>.get(key) and .has(key)
AccessorRead(op, ns, key, answer) ==
    /\ op \in {"get", "has"}
    /\ cacheOp = NoCacheOp
    /\ cacheOp' =
         [ call |-> [op |-> op, ns |-> ns,
                     items |-> <<[key |-> key, value |-> "", ttl |-> Undefined]>>],
           storageCalls |-> << [op |-> IF op = "get" THEN GetOp(ns) ELSE "hasItem",
                                key |-> StorageKey(ns, key),
                                value |-> "", ttl |-> Undefined] >>,
           answers |-> <<answer>>,
           returned |-> Awaited(answer, FALSE) ]
    /\ UNCHANGED lastWrite
    /\ UNCHANGED exceptCache

\* cacheStorage.<ns>.remove(key)
AccessorRemove(ns, key, answer) ==
    /\ cacheOp = NoCacheOp
    /\ cacheOp' =
         [ call |-> [op |-> "remove", ns |-> ns,
                     items |-> <<[key |-> key, value |-> "", ttl |-> Undefined]>>],
           storageCalls |-> << [op |-> "removeItem", key |-> StorageKey(ns, key),
                                value |-> "", ttl |-> Undefined] >>,
           answers |-> <<answer>>,
           returned |-> Awaited(answer, TRUE) ]
    /\ lastWrite' = IF answer.status = "fulfilled"
                       /\ lastWrite.storageKey = StorageKey(ns, key)
                    THEN NoWrite ELSE lastWrite
    /\ UNCHANGED exceptCache

\* getMultiple(keys) of createStorageAccessor
AccessorGetMultiple(ns, keys, answers) ==
    /\ ns # "metadata"
    /\ Len(answers) = Len(keys)
    /\ cacheOp = NoCacheOp
    /\ cacheOp' =
         [ call |-> [op |-> "getMultiple", ns |-> ns,
                     items |-> [i \in 1..Len(keys) |->
                                   [key |-> keys[i], value |-> "", ttl |-> Undefined]]],
           storageCalls |-> [i \in 1..Len(keys) |->
                                [op |-> "getItemRaw", key |-> StorageKey(ns, keys[i]),
                                 value |-> "", ttl |-> Undefined]],
           answers |-> answers,
           returned |-> AllSettled(answers) ]
    /\ UNCHANGED lastWrite
    /\ UNCHANGED exceptCache

\* setMultiple(items) of createStorageAccessor: { ttl } is passed as given
AccessorSetMultiple(ns, items, answers) ==
    /\ ns # "metadata"
    /\ Len(answers) = Len(items)
    /\ cacheOp = NoCacheOp
    /\ cacheOp' =
         [ call |-> [op |-> "setMultiple", ns |-> ns, items |-> items],
           storageCalls |-> [i \in 1..Len(items) |->
                                [op |-> "setItemRaw",
                                 key |-> StorageKey(ns, items[i].key),
                                 value |-> items[i].value, ttl |-> items[i].ttl]],
           answers |-> answers,
           returned |-> Discarded(AllSettled(answers)) ]
    /\ lastWrite' = Written(ns, items, answers, lastWrite)
    /\ UNCHANGED exceptCache

\* The caller has taken the result of its call; the next call can be made
CallerResumed ==
    /\ cacheOp # NoCacheOp
    /\ cacheOp' = NoCacheOp
    /\ UNCHANGED lastWrite
    /\ UNCHANGED exceptCache

BatchSizes == 0..MaxBatch
NextCache ==
    \/ CallerResumed
    \/ \E ns \in Namespaces, key \in CacheKeys, value \in Payloads, ttl \in TtlArgs,
          answer \in SetAnswers : AccessorSet(ns, key, value, ttl, answer)
    \/ \E op \in {"get", "has"}, ns \in Namespaces, key \in CacheKeys,
          answer \in GetAnswers : AccessorRead(op, ns, key, answer)
    \/ \E ns \in Namespaces, key \in CacheKeys, answer \in SetAnswers :
          AccessorRemove(ns, key, answer)
    \/ \E ns \in Namespaces, n \in BatchSizes :
          \E keys \in [1..n -> BatchKeys], answers \in [1..n -> GetAnswers] :
              AccessorGetMultiple(ns, keys, answers)
    \/ \E ns \in Namespaces, n \in BatchSizes :
          \E items \in [1..n -> [key : BatchKeys, value : Payloads, ttl : TtlArgs]],
             answers \in [1..n -> SetAnswers] :
              AccessorSetMultiple(ns, items, answers)

SpecCache == Init /\ [][NextCache]_vars

\* ------------------------------------------------- screenshot cache key
\* Parsed ScreenshotOptions.  0 stands for an omitted width, height,
\* quality, deviceScaleFactor or delay (all falsy), "" for an omitted format
\* or waitUntil.
BaseOptions ==
    [ url |-> "https://a.io", width |-> 0, height |-> 0, fullPage |-> FALSE,
      format |-> "png", quality |-> 0, mobile |-> FALSE, darkMode |-> FALSE,
      deviceScaleFactor |-> 0, waitUntil |-> "networkidle", delay |-> 0 ]
ParsedOptions ==
    { BaseOptions,
      [BaseOptions EXCEPT !.url = "https://a.io:1280"],
      [BaseOptions EXCEPT !.width = 1280],
      [BaseOptions EXCEPT !.width = 800],
      [BaseOptions EXCEPT !.height = 600],
      [BaseOptions EXCEPT !.fullPage = TRUE],
      [BaseOptions EXCEPT !.format = ""],
      [BaseOptions EXCEPT !.format = "webp"],
      [BaseOptions EXCEPT !.format = "jpeg"],
      [BaseOptions EXCEPT !.format = "jpeg", !.quality = 50],
      [BaseOptions EXCEPT !.mobile = TRUE],
      [BaseOptions EXCEPT !.darkMode = TRUE],
      [BaseOptions EXCEPT !.deviceScaleFactor = 2],
      [BaseOptions EXCEPT !.waitUntil = "load"],
      [BaseOptions EXCEPT !.delay = 500] }

\* `x || d` on a number
OrElse(x, d) == IF x = 0 THEN d ELSE x
\* `s || d` on a string
OrElseStr(x, d) == IF x = "" THEN d ELSE x

\* generateCacheKey: the template string
generateCacheKey(options) ==
    "screenshot:" \o options.url
        \o ":" \o ToString(OrElse(options.width, 1280))
        \o ":" \o ToString(OrElse(options.height, 720))
        \o ":" \o (IF options.fullPage THEN "full" ELSE "viewport")
        \o ":" \o OrElseStr(options.format, "png")
        \o ":" \o ToString(OrElse(options.quality, 80))
        \o ":" \o (IF options.mobile THEN "mobile" ELSE "desktop")
        \o ":" \o (IF options.darkMode THEN "dark" ELSE "light")

\* What createContext and takeScreenshot make of the options: the values
\* the render runs with
RenderParameters(options) ==
    [ url |-> options.url,
      width |-> OrElse(options.width, 1280),
      height |-> OrElse(options.height, 720),
      fullPage |-> options.fullPage,
      format |-> OrElseStr(options.format, "png"),
      jpegQuality |-> IF options.format = "jpeg"
                      THEN OrElse(options.quality, 80) ELSE 0,
      mobile |-> options.mobile,
      darkMode |-> options.darkMode,
      deviceScaleFactor |-> OrElse(options.deviceScaleFactor, 1),
      waitUntil |-> OrElseStr(options.waitUntil, "domcontentloaded"),
      delay |-> IF options.delay > 1000 THEN 1000 ELSE options.delay ]

\* The endpoint computes the cache key of a request (line 605)
KeyGenerated(options) ==
    /\ keyed' = <<[options |-> options, key |-> generateCacheKey(options)]>>
                    \o SubSeq(keyed, 1, IF Len(keyed) > 0 THEN 1 ELSE 0)
    /\ UNCHANGED <<poolVars, cacheVars, response, lifeVars, serverVars, moreVars>>

NextKey == \E options \in ParsedOptions : KeyGenerated(options)

SpecKey == Init /\ [][NextKey]_vars

\* --------------------------------------------------- screenshot endpoint
\* Browser processes that may crash in one behaviour of the endpoint
EndpointCrashes == 2

\* Sequential requests with default options against a pool whose browsers
\* may crash
InitEndpoint ==
    /\ InitPool
    /\ maxBrowsers = PoolMaxBrowsers
    /\ maxPagesPerBrowser = PoolMaxPagesPerBrowser
    /\ load = [calls |-> 1, shots |-> 1, crashes |-> EndpointCrashes,
               options |-> {DefaultOptions}]

\* new Response(buffer, { headers: { ..., "X-Cache": xCache } })
Ok200(xCache) ==
    [status |-> 200, xCache |-> xCache, retryAfter |-> 0, details |-> ""]
\* The catch block of the handler: status 500, details: error.message,
\* no Retry-After header
Error500(message) ==
    [status |-> 500, xCache |-> "", retryAfter |-> 0, details |-> message]

\* getPage reaches `throw new Error("No available browsers in pool")`: the
\* search found no connected browser and the list is full
PoolExhausted(options) ==
    /\ Search(browsers, 1, Target(options),
              [best |-> 0, needsNewContext |-> FALSE]).best = 0
    /\ ~(Len(browsers) < maxBrowsers)

\* The message of the error an await of getPage rejects with
AwaitError(pc) ==
    IF pc = "launch" THEN "Browser launch failed" ELSE "Target closed"

\* The message of the error the try block of takeScreenshot ends with
RenderError(outcome) ==
    IF outcome = "timeout" THEN "Timeout 10000ms exceeded" ELSE "Navigation failed"

exceptEndpoint == <<cacheVars, keyed, lifeVars, serverVars, retry, layers, store,
                   fonts>>

\* query.url of a request: missing, or one of two sites
RequestUrls == {"", "a.io", "b.io"}

\* generateCacheKey(parseScreenshotOptions(query)) of a request that names
\* url and, at most, width, height, darkMode and mobile
RequestKey(url, options) ==
    generateCacheKey([BaseOptions EXCEPT
        !.url = "https://" \o url,
        !.width = options.width, !.height = options.height,
        !.darkMode = options.darkMode, !.mobile = options.mobile])

\* A step of the handler: a call of cacheStorage.screenshots or of the pool,
\* or the end of the render
Event(op, arg) == [op |-> op, arg |-> arg]

\* `await cacheStorage.screenshots.set(cacheKey, screenshotBuffer)` is
\* reached only when takeScreenshotWithRetry returned a buffer
CacheWritesAlways(key, outcome) == <<Event("set", key)>>
CacheWrites(key, outcome) ==
    IF outcome = "ok" THEN <<Event("set", key)>> ELSE <<>>

\* captureScreenshot from the request to the first await that touches the
\* pool: parse, key, cache lookup and, on a miss, takeScreenshotWithRetry
\* (maxRetries = 0) -> takeScreenshot -> getPage up to its first await
CaptureStarted(c, url, options, lookup) ==
    /\ url \in RequestUrls
    /\ lookup \in {"miss", "hit", "rejected"}
    /\ IF url = "" \/ lookup # "miss"
       THEN /\ calls[c].pc = "idle"
            /\ options \in load.options
            /\ \A d \in Slots : d < c => calls[d].pc # "idle"
            /\ response' = IF url = "" THEN Error500("Missing url parameter")
                           ELSE IF lookup = "hit" THEN Ok200("HIT")
                           ELSE Error500("Storage error")
            /\ capture' = IF InFlight # {} \/ held # {}
                          THEN \* the record stays with the request that renders
                               capture
                          ELSE IF url = ""
                          THEN [key |-> "", events |-> <<>>, done |-> TRUE]
                          ELSE [key |-> RequestKey(url, options),
                                events |-> <<Event("get", RequestKey(url, options))>>,
                                done |-> TRUE]
            /\ UNCHANGED poolVars
       ELSE /\ GetPageStart(c, options)
            /\ response' = IF PoolExhausted(options)
                           THEN Error500("No available browsers in pool")
                           ELSE response
            /\ capture' = [key |-> RequestKey(url, options),
                           events |-> <<Event("get", RequestKey(url, options)),
                                        Event("getPage", "")>>,
                           done |-> PoolExhausted(options)]
    /\ UNCHANGED exceptEndpoint

\* An await of getPage rejects: takeScreenshot rejects, the handler catches
CaptureAwaitRejected(c) ==
    /\ AwaitRejected(c)
    /\ response' = Error500(AwaitError(calls[c].pc))
    /\ capture' = [capture EXCEPT !.done = TRUE]
    /\ UNCHANGED exceptEndpoint

\* The try block of takeScreenshot ends, the page is released, and on
\* success the buffer is written to the cache (stored or rejected) before
\* the response is built
CaptureSettled(h, outcome, stored) ==
    /\ TakeScreenshotSettled(h, outcome)
    /\ response' = IF outcome # "ok" THEN Error500(RenderError(outcome))
                   ELSE IF stored THEN Ok200("MISS")
                   ELSE Error500("Storage error")
    /\ capture' = [capture EXCEPT
                      !.events = @ \o <<Event("render", outcome)>>
                                   \o CacheWrites(capture.key, outcome),
                      !.done = TRUE]
    /\ UNCHANGED exceptEndpoint

NextEndpoint ==
    \/ \E c \in Slots, url \in RequestUrls, options \in OptionSet,
          lookup \in {"miss", "hit", "rejected"} :
            CaptureStarted(c, url, options, lookup)
    \/ \E c \in Slots : BrowserCreated(c) /\ UNCHANGED otherVars
    \/ \E c \in Slots : PageCreated(c) /\ UNCHANGED otherVars
    \/ \E c \in Slots : CaptureAwaitRejected(c)
    \/ \E h \in held, outcome \in Outcomes, stored \in BOOLEAN :
            CaptureSettled(h, outcome, stored)
    \/ \E i \in 1..Len(browsers) : BrowserDisconnected(i) /\ UNCHANGED otherVars

SpecEndpoint == InitEndpoint /\ [][NextEndpoint]_vars

\* --------------------------------------------------------------- cleanup
\* How long ago a browser was last used, against pageIdleTimeout (5 min) and
\* browserIdleTimeout (10 min): both are measured from the same lastUsed
Ages == {"fresh", "pageIdle", "idle"}

AgeRank(age) == CASE age = "fresh" -> 0 [] age = "pageIdle" -> 1 [] OTHER -> 2

\* `now - browser.lastUsed` of every browser of the list, by class
LastUsedAges ==
    [ id \in { browsers[i].id : i \in 1..Len(browsers) } |->
        browsers[IndexOf(id)].lastUsed ]

\* Time goes by: no browser gets younger, and one used before another stays
\* at least as old as the other
TimePassed(ages) ==
    /\ ages \in [ DOMAIN LastUsedAges -> Ages ]
    /\ ages # LastUsedAges
    /\ \A id \in DOMAIN ages : AgeRank(ages[id]) >= AgeRank(LastUsedAges[id])
    /\ \A id, jd \in DOMAIN ages :
          AgeRank(LastUsedAges[id]) < AgeRank(LastUsedAges[jd]) =>
              AgeRank(ages[id]) <= AgeRank(ages[jd])
    /\ browsers' = [i \in 1..Len(browsers) |->
                       [browsers[i] EXCEPT !.lastUsed = ages[browsers[i].id]]]
    /\ UNCHANGED <<maxBrowsers, maxPagesPerBrowser, calls, held, crashes, usage,
                   lastResult, load>>

\* shouldRemove of cleanup
shouldRemoveIdle(b, age) ==
    \/ ~b.connected
    \/ age = "idle"
shouldRemove(b, age) ==
    \/ ~b.connected
    \/ (b.activePagesCount = 0 /\ age = "idle")

\* A kept browser whose available pages are spliced out and closed
PagesSpliced(b, age) ==
    /\ ~shouldRemove(b, age)
    /\ Len(b.availablePages) > 0
    /\ age \in {"pageIdle", "idle"}

\* for-of of shutdown walks the array object `this.browsers` named when the
\* loop began.  It is the pool's list until cleanup assigns a new array to
\* this.browsers; from then on the loop walks the array left behind.
LoopArray ==
    IF shutdown.detached THEN shutdown.array
    ELSE [i \in 1..Len(browsers) |-> browsers[i].id]

\* `this.browsers = keepBrowsers` while the loop of shutdown is suspended
Detached(sd) ==
    IF sd.pc = "closing" /\ ~sd.detached
    THEN [sd EXCEPT !.detached = TRUE, !.array = LoopArray]
    ELSE sd

exceptCleanup == <<maxBrowsers, maxPagesPerBrowser, calls, crashes, usage,
                   lastResult, load, cacheVars, keyed, response, process, launching,
                   moreVars>>

\* The 5-minute timer (or the ResourceManager callback) runs cleanup up to its
\* await: one pass over the list, close() on what is removed, splice and
\* close of idle pages.  With nothing to close there is no await and
\* `this.browsers = keepBrowsers` happens at once.
CleanupStarted(ages) ==
    /\ process = "running"
    /\ cleaning.pc = "idle"
    /\ ages = LastUsedAges
    /\ LET removed(b) == shouldRemove(b, ages[b.id])
           spliced(b) == PagesSpliced(b, ages[b.id])
           walked == [i \in 1..Len(browsers) |->
                         IF spliced(browsers[i])
                         THEN [browsers[i] EXCEPT !.availablePages = <<>>]
                         ELSE browsers[i]]
           keepBrowsers == SelectSeq(walked, LAMBDA b : ~removed(b))
           closePromises == { i \in 1..Len(browsers) :
                                removed(browsers[i]) \/ spliced(browsers[i]) }
       IN
       IF closePromises = {}
       THEN /\ browsers' = keepBrowsers
            /\ shutdown' = Detached(shutdown)
            /\ UNCHANGED <<held, cleaning>>
       ELSE LET after == Renamed(walked, held) IN
            /\ browsers' = after.browsers
            /\ held' = after.held
            /\ cleaning' = [pc |-> "await",
                            keepBrowsers |-> [k \in 1..Len(keepBrowsers) |->
                                                 keepBrowsers[k].id],
                            closed |-> { browsers[i].id : i \in
                                           { j \in 1..Len(browsers) :
                                               removed(browsers[j]) } }]
            /\ UNCHANGED shutdown
    /\ UNCHANGED exceptCleanup

\* Promise.allSettled(closePromises) resolved: `this.browsers = keepBrowsers`,
\* the browsers kept by the pass, whatever was pushed since
CleanupResumed ==
    /\ process = "running"
    /\ cleaning.pc = "await"
    /\ LET kept == SelectSeq(browsers,
                       LAMBDA b : b.id \in SeqRange(cleaning.keepBrowsers))
           after == Renamed(kept, held)
       IN
       /\ browsers' = after.browsers
       /\ held' = after.held
    /\ shutdown' = Detached(shutdown)
    /\ cleaning' = [pc |-> "idle", keepBrowsers |-> <<>>, closed |-> {}]
    /\ UNCHANGED exceptCleanup

\* -------------------------------------------------------------- shutdown
\* `browser.close()` acts on the browser object, in the pool's list or not
CloseApplied(bs, id, outcome) ==
    [i \in 1..Len(bs) |->
        IF bs[i].id = id /\ outcome = "fulfilled"
        THEN [bs[i] EXCEPT !.connected = FALSE]
        ELSE bs[i]]

\* The loop of shutdown reaches position i of its array: close() is called
\* on that browser whatever its activePagesCount
CloseCalled(sd, i) ==
    LET id == LoopArray[i] IN
    [sd EXCEPT !.pc = "closing", !.index = i,
               !.attempted = @ \cup {id},
               !.busy = IF InPool(id) /\ browsers[IndexOf(id)].activePagesCount > 0
                        THEN @ \cup {id} ELSE @]

\* The loop is over: `this.browsers = []`; skipped are the browsers of the
\* pool's list close() was never called on
LoopDone(sd) ==
    [sd EXCEPT !.pc = "done",
               !.skipped = { browsers[i].id : i \in 1..Len(browsers) } \ sd.attempted]

exceptShutdown == <<maxBrowsers, maxPagesPerBrowser, calls, held, crashes, usage,
                    lastResult, load, cacheVars, keyed, response, cleaning, launching,
                    serverVars, moreVars>>

\* SIGINT / SIGTERM: `await cleanup()`, that is browserPool.shutdown(), up to
\* its first await; with an empty list it runs to `this.browsers = []` and
\* process.exit(0) follows
SignalReceived(sig) ==
    /\ sig \in {"SIGINT", "SIGTERM"}
    /\ process = "running"
    /\ shutdown.pc = "idle"
    /\ IF browsers = <<>>
       THEN /\ shutdown' = LoopDone(shutdown)
            /\ browsers' = <<>>
            /\ process' = "exited"
       ELSE /\ shutdown' = CloseCalled(shutdown, 1)
            /\ UNCHANGED <<browsers, process>>
    /\ UNCHANGED exceptShutdown

\* browser.close() of the browser the loop stands at settles; a rejection is
\* caught.  The loop goes on to the next element of its array (also one
\* pushed onto it meanwhile), or ends: `this.browsers = []`, shutdown
\* returns, process.exit(0).
BrowserCloseSettled(outcome) ==
    /\ process = "running"
    /\ shutdown.pc = "closing"
    /\ LET i == shutdown.index
           id == LoopArray[i]
           sd == [shutdown EXCEPT !.failed = IF outcome = "rejected"
                                             THEN @ \cup {id} ELSE @]
       IN
       IF i < Len(LoopArray)
       THEN /\ shutdown' = CloseCalled(sd, i + 1)
            /\ browsers' = CloseApplied(browsers, id, outcome)
            /\ UNCHANGED process
       ELSE /\ shutdown' = LoopDone(sd)
            /\ browsers' = <<>>
            /\ process' = "exited"
    /\ UNCHANGED exceptShutdown

\* A server taking requests with default options when the signal arrives
InitShutdown ==
    /\ InitPool
    /\ maxBrowsers = PoolMaxBrowsers
    /\ maxPagesPerBrowser = PoolMaxPagesPerBrowser
    /\ load = [calls |-> MaxCalls, shots |-> MaxShots, crashes |-> 0,
               options |-> {DefaultOptions}]

\* The pool while the process runs, its cleanup timer, and a shutdown signal
\* arriving.  Requests with default options never need a context rebuilt.
NextShutdown ==
    \/ \E c \in Slots, options \in load.options :
            process = "running" /\ GetPageStart(c, options) /\ UNCHANGED otherVars
    \/ \E c \in Slots : process = "running" /\ BrowserCreated(c) /\ UNCHANGED otherVars
    \/ \E c \in Slots : process = "running" /\ PageCreated(c) /\ UNCHANGED otherVars
    \/ \E c \in Slots : process = "running" /\ AwaitRejected(c) /\ UNCHANGED otherVars
    \/ \E h \in held, outcome \in Outcomes :
            process = "running" /\ TakeScreenshotSettled(h, outcome)
                                /\ UNCHANGED otherVars
    \/ \E ages \in [ { browsers[i].id : i \in 1..Len(browsers) } -> Ages ] :
            CleanupStarted(ages) /\ UNCHANGED serverVars
    \/ CleanupResumed /\ UNCHANGED serverVars
    \/ process = "running" /\ TimePassed([id \in DOMAIN LastUsedAges |-> "idle"])
                           /\ UNCHANGED otherVars
    \/ \E sig \in {"SIGINT", "SIGTERM"} : SignalReceived(sig)
    \/ \E outcome \in {"fulfilled", "rejected"} : BrowserCloseSettled(outcome)

SpecShutdown == InitShutdown /\ [][NextShutdown]_vars

\* ---------------------------------------------------------- image endpoint
MaxImageRequests == 4
MaxSweeps == 2
Cpus == 4

Max(a, b) == IF a >= b THEN a ELSE b

\* Math.max(2, Math.floor(cpus().length / 2))
MAX_CONCURRENT_PROCESSING == Max(2, Cpus \div 2)

\* isProcessingOverloaded
CountOverloaded(count, u) == count > MAX_CONCURRENT_PROCESSING
isProcessingOverloaded(count, u) ==
    count > MAX_CONCURRENT_PROCESSING \/ isMemoryPressure(u)

\* Status of the Response the handler builds once the race of webHandler and
\* the 30 s timeout has settled
ImageOutcomes == {"ok", "not allowed", "Invalid", "Processing timeout"}
ImageStatus(outcome) ==
    CASE outcome = "ok" -> 200
      [] outcome = "not allowed" -> 403
      [] outcome = "Invalid" -> 400
      [] OTHER -> 500

exceptImage == <<poolVars, cacheVars, keyed, response, lifeVars, manager, moreVars>>

\* GET /img/*: the capacity check, then `processingCount++` and the call of
\* webHandler, up to the await of the race
ImageRequestArrived ==
    /\ process = "running"
    /\ image.arrived < MaxImageRequests
    /\ LET before == image.processingCount
           rejected == isProcessingOverloaded(before, usage)
           after == IF rejected THEN before ELSE before + 1
       IN
       image' = [image EXCEPT
                    !.arrived = @ + 1,
                    !.processingCount = after,
                    !.inFlight = IF rejected THEN @ ELSE @ + 1,
                    !.status = IF rejected THEN 503 ELSE @,
                    !.last = [pressured |-> isMemoryPressure(usage),
                              admitted |-> ~rejected,
                              status |-> IF rejected THEN 503 ELSE 0,
                              retryAfter |-> IF rejected THEN 30 ELSE 0,
                              before |-> before,
                              after |-> after]]
    /\ UNCHANGED exceptImage

\* The race settles: `finally { processingCount-- }`, then the response or
\* the catch that maps the error to 403 / 400 / 500
ImageRequestSettled(outcome) ==
    /\ process = "running"
    /\ outcome \in ImageOutcomes
    /\ image.inFlight > 0
    /\ image' = [image EXCEPT !.processingCount = @ - 1,
                              !.inFlight = @ - 1,
                              !.status = ImageStatus(outcome)]
    /\ UNCHANGED exceptImage

\* ------------------------------------------------------- ResourceManager
\* The two registerCleanup calls of the program: browserPool.cleanup and the
\* reset of the IPX instance
Callbacks == {"pool", "ipx"}

RECURSIVE Count(_, _)
Count(list, x) ==
    IF list = <<>> THEN 0
    ELSE (IF Head(list) = x THEN 1 ELSE 0) + Count(Tail(list), x)

\* registerCleanup(callback): cleanupCallbacks.push(callback).  The pool
\* registers when its module loads, createImageProcessor when it creates the
\* IPX instance (`cachedIPXInstance` is null).
RegisterCleanup(cb) ==
    /\ process = "running"
    /\ cb \in Callbacks
    /\ Count(manager.cleanupCallbacks, cb) = 0
    /\ manager' = [manager EXCEPT !.cleanupCallbacks = Append(@, cb)]
    /\ image' = IF cb = "ipx" THEN [image EXCEPT !.cachedIPXInstance = TRUE]
                ELSE image
    /\ UNCHANGED <<poolVars, cacheVars, keyed, response, lifeVars, moreVars>>

\* `processingCount = 0; cachedIPXInstance = null`
IpxReset(img) == [img EXCEPT !.processingCount = 0, !.cachedIPXInstance = FALSE]

\* How the promise of each callback settles.  The IPX callback has no await
\* and nothing in it throws; the pool's awaits browserPool.cleanup().
CallbackOutcomes ==
    { outcomes \in [Callbacks -> {"fulfilled", "rejected"}] :
        outcomes["ipx"] = "fulfilled" }

\* The callbacks `cleanupCallbacks.map(...)` calls, in order: all of them,
\* since a rejection is no exception of the map
RECURSIVE InvokedUntilRejection(_, _)
InvokedUntilRejection(list, outcomes) ==
    IF list = <<>> THEN <<>>
    ELSE IF outcomes[Head(list)] = "rejected" THEN <<Head(list)>>
    ELSE <<Head(list)>> \o InvokedUntilRejection(Tail(list), outcomes)
InvokedCallbacks(list, outcomes) == list

\* callback().catch((error) => { console.warn(...) }): the handler returns,
\* so the promise mapped to fulfils whichever way the callback's settled
Caught(outcome) == [status |-> "fulfilled", value |-> Undefined]

\* One run of resourceManager.cleanup() over `list`: what it called, the
\* promises handed to Promise.allSettled and how its own promise settles
CleanupRun(list, outcomes) ==
    LET invoked == InvokedCallbacks(list, outcomes)
        promises == [i \in 1..Len(invoked) |-> Caught(outcomes[invoked[i]])]
    IN [callbacks |-> list,
        outcomes |-> [i \in 1..Len(list) |-> outcomes[list[i]]],
        invoked |-> invoked,
        promises |-> [i \in 1..Len(promises) |-> promises[i].status],
        result |-> Discarded(AllSettled(promises)).status]

\* The 10-minute timer: resourceManager.cleanup() calls every callback of
\* cleanupCallbacks, each up to its first await, whatever isMemoryPressure()
\* says; a rejection is caught and logged.  `outcomes` tells how the
\* promises of the callbacks called here settle in the end.
Sweep(ages, outcomes) ==
    /\ process = "running"
    /\ manager.sweeps < MaxSweeps
    /\ outcomes \in CallbackOutcomes
    /\ LET run == CleanupRun(manager.cleanupCallbacks, outcomes) IN
       /\ manager' = [manager EXCEPT
                         !.sweeps = @ + 1,
                         !.invoked = [cb \in Callbacks |->
                                         @[cb] + Count(run.invoked, cb)],
                         !.run = run]
       /\ IF Count(run.invoked, "pool") > 0
          THEN CleanupStarted(ages)
          ELSE UNCHANGED <<poolVars, cacheVars, keyed, response, lifeVars, moreVars>>
       /\ image' = IF Count(run.invoked, "ipx") > 0
                   THEN IpxReset(image) ELSE image

\* A server whose pool is idle and empty
InitManager ==
    /\ InitPool
    /\ maxBrowsers = PoolMaxBrowsers
    /\ maxPagesPerBrowser = PoolMaxPagesPerBrowser
    /\ load = [calls |-> 0, shots |-> 0, crashes |-> 0, options |-> {DefaultOptions}]

\* Module loading, /img/* traffic, the heap, the sweeps and a shutdown signal
NextManager ==
    \/ \E cb \in Callbacks : RegisterCleanup(cb)
    \/ \E ages \in [ { browsers[i].id : i \in 1..Len(browsers) } -> Ages ],
          outcomes \in CallbackOutcomes : Sweep(ages, outcomes)
    \/ ImageRequestArrived
    \/ \E outcome \in ImageOutcomes : ImageRequestSettled(outcome)
    \/ \E u \in [heapUsed : {50, 85, 90}, heapTotal : {100}] :
            process = "running" /\ MemoryUsageChanged(u) /\ UNCHANGED otherVars
    \/ \E sig \in {"SIGINT", "SIGTERM"} : SignalReceived(sig)

SpecManager == InitManager /\ [][NextManager]_vars

\* ---------------------------------------------------------- createBrowser
\* `process.env.PLAYWRIGHT_BROWSER_CONFIG || "auto"`
BrowserConfigs == {"auto", "headless-shell", "chromium"}

Last(a) == a[Len(a)]

\* The playwright.launch calls of createBrowser, by what is passed:
\* "headless-shell" is launchOptions with channel chromium-headless-shell,
\* "standard" is launchOptions, "minimal" is the two-argument fallback
FirstAttempt(config) ==
    IF config \in {"auto", "headless-shell"} THEN "headless-shell" ELSE "standard"

\* The launch that follows when the last one of `a` rejected: the inner catch,
\* the outer catch, or "none" when the fallback's catch throws
RetryMinimalTwice(a) ==
    CASE Last(a) = "headless-shell" -> "standard"
      [] Last(a) = "standard" -> "minimal"
      [] OTHER -> IF Count(a, "minimal") < 2 THEN "minimal" ELSE "none"
NextAttempt(a) ==
    CASE Last(a) = "headless-shell" -> "standard"
      [] Last(a) = "standard" -> "minimal"
      [] OTHER -> "none"

exceptLaunch == <<cacheVars, keyed, response, shutdown, process, cleaning, serverVars,
                 moreVars>>

\* getPage up to its first await; a call that has to create a browser is
\* suspended in the first playwright.launch of createBrowser
LaunchStarted(c, options) ==
    /\ GetPageStart(c, options)
    /\ launching' =
          IF calls'[c].pc = "launch"
          THEN [launching EXCEPT
                   !.attempts[c] = <<FirstAttempt(launching.browserConfig)>>,
                   !.result[c] = "pending"]
          ELSE [launching EXCEPT !.attempts[c] = <<>>, !.result[c] = "none"]
    /\ UNCHANGED exceptLaunch

\* The launch a call is suspended in rejects: the next launch is made, or
\* createBrowser throws "Browser launch failed: ..." and getPage with it
LaunchRejected(c) ==
    /\ calls[c].pc = "launch"
    /\ IF NextAttempt(launching.attempts[c]) = "none"
       THEN /\ AwaitRejected(c)
            /\ launching' = [launching EXCEPT !.result[c] = "launchFailed"]
       ELSE /\ launching' = [launching EXCEPT
                                !.attempts[c] = Append(@, NextAttempt(@))]
            /\ UNCHANGED poolVars
    /\ UNCHANGED exceptLaunch

\* The launch resolves, createContext resolves, the browser is pushed
LaunchResolved(c) ==
    /\ BrowserCreated(c)
    /\ launching' = [launching EXCEPT !.result[c] = "created"]
    /\ UNCHANGED exceptLaunch

\* The launch resolves and `await this.createContext(...)` rejects
ContextRejected(c) ==
    /\ calls[c].pc = "launch"
    /\ AwaitRejected(c)
    /\ launching' = [launching EXCEPT !.result[c] = "contextFailed"]
    /\ UNCHANGED exceptLaunch

\* Requests with default options under each PLAYWRIGHT_BROWSER_CONFIG
InitLaunch ==
    /\ browsers = <<>>
    /\ calls = [c \in Slots |-> IdleCall("idle")]
    /\ held = {}
    /\ crashes = 0
    /\ usage = [heapUsed |-> 50, heapTotal |-> 100]
    /\ lastResult = "none"
    /\ maxBrowsers = PoolMaxBrowsers
    /\ maxPagesPerBrowser = PoolMaxPagesPerBrowser
    /\ load = [calls |-> MaxCalls, shots |-> MaxShots, crashes |-> 0,
               options |-> {DefaultOptions}]
    /\ InitRest
    /\ \E config \in BrowserConfigs : launching = NoLaunching(config)

NextLaunch ==
    \/ \E c \in Slots, options \in load.options : LaunchStarted(c, options)
    \/ \E c \in Slots : LaunchRejected(c)
    \/ \E c \in Slots : LaunchResolved(c)
    \/ \E c \in Slots : ContextRejected(c)
    \/ \E c \in Slots : PageCreated(c) /\ UNCHANGED otherVars
    \/ \E c \in Slots : calls[c].pc = "createPage" /\ AwaitRejected(c)
                                                   /\ UNCHANGED otherVars
    \/ \E h \in held, outcome \in Outcomes :
            TakeScreenshotSettled(h, outcome) /\ UNCHANGED otherVars

SpecLaunch == InitLaunch /\ [][NextLaunch]_vars

\* ------------------------------------------------------ pool at capacity
\* A pool two cold-start requests with default options filled to maxBrowsers:
\* each browser has taken one screenshot and got its page back.  The
\* requests that follow ask for two other fingerprints.
UsedBrowser(id) ==
    [NewPooledBrowser(id, Target(DefaultOptions)) EXCEPT
        !.availablePages = <<[pid |-> id, context |-> NewContext(Target(DefaultOptions))]>>]

RepurposeOptions ==
    { [DefaultOptions EXCEPT !.width = 800, !.height = 600],
      [DefaultOptions EXCEPT !.darkMode = TRUE] }

InitRepurpose ==
    /\ browsers = Renamed(<<UsedBrowser(1), UsedBrowser(2)>>, {}).browsers
    /\ calls = [c \in Slots |-> IdleCall("idle")]
    /\ held = {}
    /\ crashes = 0
    /\ usage = [heapUsed |-> 50, heapTotal |-> 100]
    /\ lastResult = "none"
    /\ InitOthers
    /\ maxBrowsers = PoolMaxBrowsers
    /\ maxPagesPerBrowser = PoolMaxPagesPerBrowser
    /\ load = [calls |-> MaxCalls, shots |-> MaxShots, crashes |-> MaxCrashes,
               options |-> RepurposeOptions]

NextRepurpose ==
    \/ \E c \in Slots, options \in RepurposeOptions :
            GetPageStart(c, options) /\ UNCHANGED otherVars
    \/ \E c \in Slots : ContextCreated(c) /\ UNCHANGED otherVars
    \/ \E c \in Slots : PageCreated(c) /\ UNCHANGED otherVars
    \/ \E c \in Slots : calls[c].pc # "launch" /\ AwaitRejected(c)
                                               /\ UNCHANGED otherVars
    \/ \E h \in held, outcome \in Outcomes :
            TakeScreenshotSettled(h, outcome) /\ UNCHANGED otherVars
    \/ \E i \in 1..Len(browsers) : BrowserDisconnected(i) /\ UNCHANGED otherVars

SpecRepurpose == InitRepurpose /\ [][NextRepurpose]_vars

\* The pool at capacity when context creation can fail after the old
\* context was closed
RebuildOptions == { DefaultOptions, [DefaultOptions EXCEPT !.darkMode = TRUE] }

NextRebuild ==
    \/ \E c \in Slots, options \in RebuildOptions :
            GetPageStart(c, options) /\ UNCHANGED otherVars
    \/ \E c \in Slots : ContextCreated(c) /\ UNCHANGED otherVars
    \/ \E c \in Slots : CreateContextRejected(c) /\ UNCHANGED otherVars
    \/ \E c \in Slots : PageCreated(c) /\ UNCHANGED otherVars
    \/ \E c \in Slots : calls[c].pc # "launch" /\ AwaitRejected(c)
                                               /\ UNCHANGED otherVars
    \/ \E h \in held, outcome \in Outcomes :
            TakeScreenshotSettled(h, outcome) /\ UNCHANGED otherVars

InitRebuild ==
    /\ browsers = Renamed(<<UsedBrowser(1), UsedBrowser(2)>>, {}).browsers
    /\ calls = [c \in Slots |-> IdleCall("idle")]
    /\ held = {}
    /\ crashes = 0
    /\ usage = [heapUsed |-> 50, heapTotal |-> 100]
    /\ lastResult = "none"
    /\ InitOthers
    /\ maxBrowsers = PoolMaxBrowsers
    /\ maxPagesPerBrowser = PoolMaxPagesPerBrowser
    /\ load = [calls |-> MaxCalls, shots |-> MaxShots, crashes |-> MaxCrashes,
               options |-> RebuildOptions]

SpecRebuild == InitRebuild /\ [][NextRebuild]_vars

\* ------------------------------------------------- pool, clock and sweeps
\* Requests with default options entering getPage one at a time, browsers
\* that crash, time that goes by and the cleanup timer
InitSweep ==
    /\ InitPool
    /\ maxBrowsers = PoolMaxBrowsers
    /\ maxPagesPerBrowser = PoolMaxPagesPerBrowser
    /\ load = [calls |-> 1, shots |-> MaxShots, crashes |-> MaxCrashes,
               options |-> {DefaultOptions}]

NextSweep ==
    \/ \E c \in Slots, options \in load.options :
            GetPageStart(c, options) /\ UNCHANGED otherVars
    \/ \E c \in Slots : BrowserCreated(c) /\ UNCHANGED otherVars
    \/ \E c \in Slots : PageCreated(c) /\ UNCHANGED otherVars
    \/ \E c \in Slots : AwaitRejected(c) /\ UNCHANGED otherVars
    \/ \E h \in held, outcome \in Outcomes :
            TakeScreenshotSettled(h, outcome) /\ UNCHANGED otherVars
    \/ \E i \in 1..Len(browsers) : BrowserDisconnected(i) /\ UNCHANGED otherVars
    \/ \E ages \in [ DOMAIN LastUsedAges -> Ages ] :
            TimePassed(ages) /\ UNCHANGED otherVars
    \/ CleanupStarted(LastUsedAges) /\ UNCHANGED serverVars
    \/ CleanupResumed /\ UNCHANGED serverVars

SpecSweep == InitSweep /\ [][NextSweep]_vars

\* ------------------------------------------------------------ leaked pages
\* Callers of getPage that never call releasePage: every page handed out
\* stays out.  Time goes by and the cleanup timer keeps firing.
NextLeak ==
    \/ \E c \in Slots, options \in load.options :
            GetPageStart(c, options) /\ UNCHANGED otherVars
    \/ \E c \in Slots : BrowserCreated(c) /\ UNCHANGED otherVars
    \/ \E c \in Slots : PageCreated(c) /\ UNCHANGED otherVars
    \/ \E c \in Slots : AwaitRejected(c) /\ UNCHANGED otherVars
    \/ \E i \in 1..Len(browsers) : BrowserDisconnected(i) /\ UNCHANGED otherVars
    \/ \E ages \in [ DOMAIN LastUsedAges -> Ages ] :
            TimePassed(ages) /\ UNCHANGED otherVars
    \/ CleanupStarted(LastUsedAges) /\ UNCHANGED serverVars
    \/ CleanupResumed /\ UNCHANGED serverVars

\* The clock advances and setInterval keeps running cleanup, whose awaits
\* settle
FairSweeps ==
    /\ WF_vars(\E ages \in [ DOMAIN LastUsedAges -> Ages ] :
                    TimePassed(ages) /\ UNCHANGED otherVars)
    /\ WF_vars(CleanupStarted(LastUsedAges) /\ UNCHANGED serverVars)
    /\ WF_vars(CleanupResumed /\ UNCHANGED serverVars)

SpecLeak == InitSweep /\ [][NextLeak]_vars /\ FairSweeps

\* ------------------------------------------------ takeScreenshotWithRetry
\* The largest maxRetries a caller passes
MaxRetries == 2

\* `setTimeout(resolve, 500)` between two attempts
RetryDelayMs == 500

\* The catch block of the loop after an attempt failed with `message`:
\* lastError = error, `break` on the last attempt, the delay otherwise.
\* With maxRetries = 0 there is no loop: the rejection of takeScreenshot
\* is the rejection of the call.
AfterFailureDelayFirst(r, message) ==
    LET e == [attempt |-> r.attempt, message |-> message] IN
    IF r.maxRetries = 0 THEN [r EXCEPT !.pc = "threw", !.thrown = e]
    ELSE [r EXCEPT !.lastError = e, !.waits = Append(@, RetryDelayMs),
                   !.pc = IF r.attempt = r.maxRetries THEN "threw" ELSE "delay",
                   !.thrown = IF r.attempt = r.maxRetries THEN e ELSE @]
AfterFailure(r, message) ==
    LET e == [attempt |-> r.attempt, message |-> message] IN
    IF r.maxRetries = 0 THEN [r EXCEPT !.pc = "threw", !.thrown = e]
    ELSE IF r.attempt = r.maxRetries
    THEN \* break; throw lastError || new Error(...)
         [r EXCEPT !.lastError = e, !.pc = "threw", !.thrown = e]
    ELSE \* await new Promise((resolve) => setTimeout(resolve, 500))
         [r EXCEPT !.lastError = e, !.pc = "delay",
                   !.waits = Append(@, RetryDelayMs)]

exceptRetry == <<cacheVars, keyed, response, lifeVars, serverVars, layers, capture,
                store, fonts>>

\* `await takeScreenshot(options)` of the call whose loop stands at r, up to
\* the first await of getPage: a throw of getPage before any await is a
\* failed attempt at once
TakeScreenshotCalled(r, options) ==
    /\ GetPageStart(1, options)
    /\ retry' = IF PoolExhausted(options)
                THEN AfterFailure([r EXCEPT !.calls = @ + 1],
                                  "No available browsers in pool")
                ELSE [r EXCEPT !.calls = @ + 1, !.pc = "attempt"]

\* takeScreenshotWithRetry(options, maxRetries) up to its first await.  A
\* negative maxRetries never enters the loop and throws the fallback error.
RetryCalled(maxRetries, options) ==
    /\ retry.pc \in {"idle", "returned", "threw"}
    /\ maxRetries \in -1..MaxRetries
    /\ LET r == [NoRetry EXCEPT !.maxRetries = maxRetries, !.options = options] IN
       IF maxRetries < 0
       THEN /\ options \in load.options
            /\ retry' = [r EXCEPT !.pc = "threw",
                            !.thrown = [attempt |-> -1,
                                        message |-> "Screenshot failed after retries"]]
            /\ UNCHANGED poolVars
       ELSE TakeScreenshotCalled(r, options)
    /\ UNCHANGED exceptRetry

\* An await of getPage rejects: the attempt fails
RetryAwaitRejected(c) ==
    /\ retry.pc = "attempt"
    /\ AwaitRejected(c)
    /\ retry' = AfterFailure(retry, AwaitError(calls[c].pc))
    /\ UNCHANGED exceptRetry

\* The try block of takeScreenshot ends and its finally block has run: the
\* buffer is returned, or the attempt fails
RetrySettled(h, outcome) ==
    /\ retry.pc = "attempt"
    /\ TakeScreenshotSettled(h, outcome)
    /\ retry' = IF outcome = "ok" THEN [retry EXCEPT !.pc = "returned"]
                ELSE AfterFailure(retry, RenderError(outcome))
    /\ UNCHANGED exceptRetry

\* The 500 ms timer fires: attempt++ and the next takeScreenshot
DelayElapsed ==
    /\ retry.pc = "delay"
    /\ TakeScreenshotCalled([retry EXCEPT !.attempt = @ + 1], retry.options)
    /\ UNCHANGED exceptRetry

\* One caller of takeScreenshotWithRetry at a time, on a pool whose browsers
\* may crash
InitRetry ==
    /\ InitPool
    /\ maxBrowsers = PoolMaxBrowsers
    /\ maxPagesPerBrowser = PoolMaxPagesPerBrowser
    /\ load = [calls |-> 1, shots |-> 1, crashes |-> EndpointCrashes,
               options |-> {DefaultOptions}]

NextRetry ==
    \/ \E maxRetries \in -1..MaxRetries, options \in OptionSet :
            RetryCalled(maxRetries, options)
    \/ \E c \in Slots : BrowserCreated(c) /\ UNCHANGED otherVars
    \/ \E c \in Slots : PageCreated(c) /\ UNCHANGED otherVars
    \/ \E c \in Slots : RetryAwaitRejected(c)
    \/ \E h \in held, outcome \in Outcomes : RetrySettled(h, outcome)
    \/ DelayElapsed
    \/ \E i \in 1..Len(browsers) : BrowserDisconnected(i) /\ UNCHANGED otherVars

\* Every await of an attempt settles and the timer fires
RetryProgress ==
    \/ \E c \in Slots : BrowserCreated(c) /\ UNCHANGED otherVars
    \/ \E c \in Slots : PageCreated(c) /\ UNCHANGED otherVars
    \/ \E c \in Slots : RetryAwaitRejected(c)
    \/ \E h \in held, outcome \in Outcomes : RetrySettled(h, outcome)
    \/ DelayElapsed

SpecRetry == InitRetry /\ [][NextRetry]_vars /\ WF_vars(RetryProgress)

\* ---------------------------------------------------- createCacheStorage
\* Values of REDIS_URL: not set, two URLs of a Redis server, a string the URL
\* parser accepts although it names no host, and two it rejects
RedisUrls ==
    {"", "redis://cache:6380", "rediss://:secret@cache", "cache:6379",
     "redis://cache:port", "not a url"}

\* new URL(s) on these strings: `ok` is FALSE where the constructor throws
\* (no scheme, or a port that is not a number)
URL(s) ==
    CASE s = "redis://cache:6380" ->
            [ok |-> TRUE, protocol |-> "redis:", hostname |-> "cache",
             port |-> "6380", password |-> ""]
      [] s = "rediss://:secret@cache" ->
            [ok |-> TRUE, protocol |-> "rediss:", hostname |-> "cache",
             port |-> "", password |-> "secret"]
      [] s = "cache:6379" ->
            [ok |-> TRUE, protocol |-> "cache:", hostname |-> "",
             port |-> "", password |-> ""]
      [] OTHER ->
            [ok |-> FALSE, protocol |-> "", hostname |-> "", port |-> "",
             password |-> ""]

\* parseInt(port), 0 standing for NaN
ParseInt(port) == CASE port = "6380" -> 6380 [] port = "6379" -> 6379 [] OTHER -> 0

\* `null`, returned in place of a driver
Null == [name |-> "null"]

\* createRedisDriver(): null without REDIS_URL and when new URL throws
createRedisDriver(env) ==
    IF env.REDIS_URL = "" THEN Null
    ELSE LET url == URL(env.REDIS_URL) IN
         IF ~url.ok THEN Null
         ELSE [name |-> "redis",
               options |-> [base |-> "lens", host |-> url.hostname,
                            port |-> IF ParseInt(url.port) # 0
                                     THEN ParseInt(url.port) ELSE 6379,
                            password |-> url.password,
                            tls |-> (url.protocol = "rediss:")]]

\* createMinIODriver(): the MinIO variables first, then the S3 ones
createMinIODriver(env) ==
    IF env.MINIO_ENDPOINT # "" /\ env.MINIO_ACCESS_KEY # ""
            /\ env.MINIO_SECRET_KEY # ""
    THEN [name |-> "s3", options |-> [endpoint |-> "MINIO_ENDPOINT"]]
    ELSE IF env.S3_ENDPOINT # "" /\ env.S3_ACCESS_KEY_ID # ""
            /\ env.S3_SECRET_ACCESS_KEY # ""
    THEN [name |-> "s3", options |-> [endpoint |-> "S3_ENDPOINT"]]
    ELSE Null

\* `if (driver) layers.push(driver)`
Pushed(list, driver) == IF driver # Null THEN Append(list, driver) ELSE list

\* The `layers` array createCacheStorage hands to overlay()
ObjectStoreFirst(env) ==
    LET memory == [name |-> "memory", options |-> [base |-> ""]]
        fs == [name |-> "fs", options |-> [base |-> "./.cache"]]
        minio == Pushed(<<memory>>, createMinIODriver(env))
        redis == IF env.REDIS_URL # ""
                 THEN Pushed(minio, createRedisDriver(env)) ELSE minio
    IN Append(redis, fs)
createCacheStorage(env) ==
    LET memory == [name |-> "memory", options |-> [base |-> ""]]
        fs == [name |-> "fs", options |-> [base |-> "./.cache"]]
        redis == IF env.REDIS_URL # ""
                 THEN Pushed(<<memory>>, createRedisDriver(env)) ELSE <<memory>>
        minio == Pushed(redis, createMinIODriver(env))
    IN Append(minio, fs)

\* The environments a process may be started with
Environments ==
    [REDIS_URL : RedisUrls,
     MINIO_ENDPOINT : {"", "set"}, MINIO_ACCESS_KEY : {"", "set"},
     MINIO_SECRET_KEY : {"", "set"},
     S3_ENDPOINT : {"", "set"}, S3_ACCESS_KEY_ID : {"", "set"},
     S3_SECRET_ACCESS_KEY : {"", "set"}]

\* `export const storage = createCacheStorage()`: the module is loaded
StorageCreated ==
    /\ ~layers.built
    /\ layers' = [layers EXCEPT !.built = TRUE,
                                !.layers = createCacheStorage(layers.env)]
    /\ UNCHANGED <<poolVars, cacheVars, keyed, response, lifeVars, serverVars, retry,
                   capture, store, fonts>>

\* A process started with some environment, before the module is loaded
InitStorage ==
    /\ InitBrowsers
    /\ maxBrowsers = PoolMaxBrowsers
    /\ maxPagesPerBrowser = PoolMaxPagesPerBrowser
    /\ load = [calls |-> 0, shots |-> 0, crashes |-> 0, options |-> {}]
    /\ launching = NoLaunching("auto")
    /\ InitServer
    /\ layers \in { [NoLayers EXCEPT !.env = env] : env \in Environments }

NextStorage == StorageCreated

SpecStorage == InitStorage /\ [][NextStorage]_vars

\* ------------------------------------------------------ clearCacheByType
\* Bound on the number of entries `storage` holds
MaxEntries == 3

\* s.startsWith(p)
StartsWith(s, p) == Len(s) >= Len(p) /\ SubSeq(s, 1, Len(p)) = p

\* Who writes to `storage`: the members of cacheStorage and the
\* SecondaryStorage adapter of better-auth (`auth:${key}`)
Writers == Namespaces \cup {"auth"}
WrittenKey(via, key) == IF via = "auth" THEN "auth:" \o key ELSE StorageKey(via, key)

\* `type === "ogImages" ? "og:" : `${type}:``
ClearPrefix(type) == IF type = "ogImages" THEN "og:" ELSE type \o ":"

exceptStore == <<poolVars, cacheVars, keyed, response, lifeVars, serverVars, retry,
                 layers, capture, fonts>>

\* A set through cacheStorage[via] (or the adapter) that the store fulfils
EntryWritten(via, key) ==
    LET entry == [key |-> WrittenKey(via, key), via |-> via] IN
    /\ Cardinality(store.entries \cup {entry}) <= MaxEntries
    /\ store' = [entries |-> store.entries \cup {entry}, cleared |-> "none",
                 before |-> {}]
    /\ UNCHANGED exceptStore

\* clearCacheByType(type) with every storage call fulfilled: getKeys(), the
\* filter on the prefix, removeItem for each key kept by the filter
clearCacheByType(type) ==
    /\ store' = [entries |-> IF type = "all" THEN {}
                             ELSE { e \in store.entries :
                                        ~StartsWith(e.key, ClearPrefix(type)) },
                 cleared |-> type,
                 before |-> store.entries]
    /\ UNCHANGED exceptStore

NextStore ==
    \/ \E via \in Writers, key \in {"a", "og:a", "s:a"} : EntryWritten(via, key)
    \/ \E type \in Namespaces \cup {"all"} : clearCacheByType(type)

SpecStore == Init /\ [][NextStore]_vars

\* ------------------------------------------------------- fonts list cache
\* Bound on the clock readings, in steps of half the cache duration
MaxFontTicks == 3

\* `const FONTS_LIST_CACHE_DURATION = 24 * 60 * 60 * 1000`
FONTS_LIST_CACHE_DURATION == 86400000

FontProviders == {"google", "bunny"}

\* The `config` argument: absent, or an options object of the provider
FontConfigs == { Null, [subsets |-> "latin"] }

\* JSON.stringify of a config object
Stringify(config) == "{\"subsets\":\"" \o config.subsets \o "\"}"

\* `fonts-list:${provider}:${config ? JSON.stringify(config) : ""}`
FontsListKey(provider, config) ==
    "fonts-list:" \o provider \o ":" \o (IF config # Null THEN Stringify(config) ELSE "")

\* What listFonts() of the unifont instance built for (provider, config)
\* settles with: the provider's list, an empty list, or a rejection
ListFonts(provider, config) ==
    { [length |-> 1, provider |-> provider, config |-> config],
      [length |-> 0, provider |-> provider, config |-> config],
      [name |-> "rejected"] }

\* cacheStorage.metadata.get(key): the value stored under the key, or null
MetadataGet(key) ==
    IF \E e \in fonts.metadata : e.key = key
    THEN (CHOOSE e \in fonts.metadata : e.key = key).value
    ELSE Null

\* cacheStorage.metadata.set(key, value)
MetadataSet(key, value) ==
    { e \in fonts.metadata : e.key # key } \cup { [key |-> key, value |-> value] }

\* `cachedFontsList && now - fontsListCacheTime < FONTS_LIST_CACHE_DURATION`
MemoryHit ==
    /\ fonts.cachedFontsList # Null
    /\ fonts.now - fonts.fontsListCacheTime < FONTS_LIST_CACHE_DURATION

exceptFonts == <<poolVars, cacheVars, keyed, response, lifeVars, serverVars, retry,
                 layers, capture, store>>

\* One getCachedFontsList(provider, config, unifont) call from its first line
\* to its return; `fetched` is what listFonts() settles with if it is
\* reached, `unifont` whether an instance was passed (the plugin's copy of
\* the function builds one itself).
getCachedFontsList(provider, config, unifont, fetched) ==
    /\ fetched \in ListFonts(provider, config)
    /\ LET cacheKey == FontsListKey(provider, config)
           cached == MetadataGet(cacheKey)
           Returns(f, list) == [f EXCEPT !.last = [provider |-> provider,
                                                   config |-> config,
                                                   returned |-> list]]
       IN
       IF MemoryHit
       THEN fonts' = Returns(fonts, fonts.cachedFontsList)
       ELSE IF cached # Null
       THEN fonts' = Returns([fonts EXCEPT !.cachedFontsList = cached,
                                           !.fontsListCacheTime = fonts.now],
                             cached)
       ELSE IF unifont /\ fetched # [name |-> "rejected"] /\ fetched.length > 0
       THEN fonts' = Returns([fonts EXCEPT !.cachedFontsList = fetched,
                                           !.fontsListCacheTime = fonts.now,
                                           !.metadata = MetadataSet(cacheKey, fetched)],
                             fetched)
       ELSE \* no instance, an empty list, or the catch block: return []
            fonts' = Returns(fonts, [length |-> 0, provider |-> provider,
                                     config |-> config])
    /\ UNCHANGED exceptFonts

\* Date.now() moves on by half the cache duration
FontClockAdvanced ==
    /\ fonts.now < MaxFontTicks * (FONTS_LIST_CACHE_DURATION \div 2)
    /\ fonts' = [fonts EXCEPT !.now = @ + FONTS_LIST_CACHE_DURATION \div 2]
    /\ UNCHANGED exceptFonts

NextFonts ==
    \/ \E provider \in FontProviders, config \in FontConfigs, unifont \in BOOLEAN :
          \E fetched \in ListFonts(provider, config) :
            getCachedFontsList(provider, config, unifont, fetched)
    \/ FontClockAdvanced

SpecFonts == Init /\ [][NextFonts]_vars

\* ================================================================ claims
\* Handles a browser object has given out and not got back
HandlesOf(id) == { h \in held : h.browser = id }

\* C1: pool capacity.  The pages handed out and not yet released never
\* number more than maxBrowsers * maxPagesPerBrowser, and no pooled browser
\* has activePagesCount above maxPagesPerBrowser.
C1_PoolCapacity ==
    /\ Cardinality(held) <= maxBrowsers * maxPagesPerBrowser
    /\ \A i \in 1..Len(browsers) :
            browsers[i].activePagesCount <= maxPagesPerBrowser

\* C2: the browsers list never holds more than maxBrowsers browsers, also
\* while several getPage calls are suspended in createBrowser.
C2_BrowserLimit == Len(browsers) <= maxBrowsers

\* C3: fingerprint isolation.  Every page getPage has handed out lives in a
\* context that was created for the fingerprint of the request holding it.
C3_FingerprintIsolation ==
    \A h \in held : h.page.context.target = h.target

\* C4: exclusive checkout.  With every releasePage called exactly once, a
\* page that is held is held by one caller only and is in no browser's
\* availablePages.
C4_ExclusiveCheckout ==
    /\ \A g, h \in held : g.page.pid = h.page.pid => g = h
    /\ \A h \in held : \A p \in PagesInPool : p.pid # h.page.pid

\* Two callers hold pages of one browser at once, one of them a page that
\* was popped from availablePages after an earlier caller released it.
C4_Witness ==
    \E g, h \in held :
        /\ g # h
        /\ g.browser = h.browser
        /\ h.reused
        /\ lastResult # "none"

\* C5: release on every path.  However the try block of takeScreenshot
\* ends, releasePage runs exactly once: every browser's activePagesCount is
\* the number of handles it has out (so it is zero once all operations have
\* ended), and every operation that ends puts its page back in
\* availablePages of its browser and takes one off its activePagesCount.
C5_CountsMatchHandles ==
    \A i \in 1..Len(browsers) :
        browsers[i].activePagesCount = Cardinality(HandlesOf(browsers[i].id))
C5_PageReturned ==
    Cardinality(held') < Cardinality(held) =>
        \E i \in 1..Len(browsers) :
            /\ Len(browsers'[i].availablePages) = Len(browsers[i].availablePages) + 1
            /\ browsers'[i].activePagesCount = browsers[i].activePagesCount - 1
C5_ReleaseOnEveryPath ==
    /\ [](C5_CountsMatchHandles)
    /\ [][C5_PageReturned]_vars

\* The last operation failed, nothing is in flight any more, no page is
\* checked out and a page sits in availablePages.
C5_Witness ==
    /\ lastResult = "rejected"
    /\ held = {}
    /\ InFlight = {}
    /\ PagesInPool # {}
    /\ \A i \in 1..Len(browsers) : browsers[i].activePagesCount = 0

C7_PressureGate ==
    /\ \A c \in Slots : ~calls[c].pressured
    /\ \A h \in held : ~h.pressured

\* The default TTL, in seconds, of each namespace
NamespaceTtl(ns) ==
    CASE ns = "screenshots" -> 86400
      [] ns = "ogImages" -> 86400
      [] ns = "fonts" -> 2592000
      [] ns = "favicons" -> 604800
      [] ns = "metadata" -> 86400

\* C12: namespace default TTLs.  A set, single or through setMultiple, that
\* omits the TTL hands `storage` the default TTL of its namespace, and an
\* explicit TTL is handed over as given.
C12_DefaultTtls ==
    cacheOp.call.op \in {"set", "setMultiple"} =>
        \A i \in 1..Len(cacheOp.call.items) :
            cacheOp.storageCalls[i].ttl =
                IF cacheOp.call.items[i].ttl = Undefined
                THEN NamespaceTtl(cacheOp.call.ns)
                ELSE cacheOp.call.items[i].ttl

BatchOps == {"getMultiple", "setMultiple"}
\* One storage operation per input, in input order, whatever the others do
C13_OnePerKey ==
    /\ Len(cacheOp.storageCalls) = Len(cacheOp.call.items)
    /\ \A i \in 1..Len(cacheOp.call.items) :
            cacheOp.storageCalls[i].key =
                StorageKey(cacheOp.call.ns, cacheOp.call.items[i].key)

C15_NamespacesDisjoint ==
    ( /\ cacheOp.call.op \in {"get", "has", "getMultiple"}
      /\ lastWrite.ns # "none"
      /\ lastWrite.ns # cacheOp.call.ns ) =>
        \A i \in 1..Len(cacheOp.storageCalls) :
            cacheOp.storageCalls[i].key # lastWrite.storageKey

\* ogImages wrote key "a" (storage key "og:a") and metadata then reads the
\* key "og:a"
C15_Witness ==
    /\ lastWrite.ns = "ogImages"
    /\ lastWrite.key = "a"
    /\ cacheOp.call.op = "get"
    /\ cacheOp.call.ns = "metadata"
    /\ cacheOp.call.items[1].key = "og:a"
    /\ cacheOp.returned.status = "fulfilled"

\* C14: cache-key collision freedom.  Two requests whose options differ in
\* a parameter the render depends on (url, width, height, fullPage, format,
\* JPEG quality, mobile, darkMode, deviceScaleFactor, waitUntil, delay)
\* never get the same key, and two requests equal in all of them get the
\* same key.
C14_KeyCollisionFree ==
    Len(keyed) = 2 =>
        ( (keyed[1].key = keyed[2].key) <=>
          (RenderParameters(keyed[1].options) = RenderParameters(keyed[2].options)) )

\* C16: pool exhaustion is answered with a retryable 503 that carries a
\* retry hint, and a render failure with an operation failure that can be
\* told from it.
C16_ExhaustionRetryable ==
    /\ response.details = "No available browsers in pool" =>
            /\ response.status = 503
            /\ response.retryAfter > 0
    /\ response.details \in {"Navigation failed", "Timeout 10000ms exceeded"} =>
            response.status = 500

\* C20: shutdown calls close() on every browser of the pool whatever its
\* activePagesCount, goes on after a close() that threw, does not throw
\* itself, and leaves the pool with no browsers when it completes.
C20_ShutdownClosesAll ==
    /\ shutdown.pc # "threw"
    /\ shutdown.pc = "done" =>
            /\ browsers = <<>>
            /\ shutdown.skipped = {}

\* C17: every callback registered through registerCleanup is invoked by each
\* sweep of the ResourceManager, whatever the memory pressure, and is invoked
\* again between a SIGINT / SIGTERM and the exit of the process.
C17_SweepInvokesAll ==
    [][manager'.sweeps > manager.sweeps =>
          \A cb \in SeqRange(manager.cleanupCallbacks) :
              manager'.invoked[cb] > manager.invoked[cb]]_vars
C17_CallbacksOnSweepAndSignal ==
    /\ C17_SweepInvokesAll
    /\ [][(process = "running" /\ process' = "exited") =>
             \A cb \in SeqRange(manager.cleanupCallbacks) :
                 manager'.invoked[cb] > manager.invoked[cb]]_vars

\* C18: an /img/* request that arrives while isMemoryPressure() is true is
\* answered 503 with Retry-After, no processing is started for it and
\* processingCount is what it was.
C18_PressureRejects ==
    image.last.pressured =>
        /\ image.last.status = 503
        /\ image.last.retryAfter > 0
        /\ ~image.last.admitted
        /\ image.last.after = image.last.before

\* a request arrived under memory pressure while another was being processed
\* and the count was within MAX_CONCURRENT_PROCESSING
C18_Witness ==
    /\ image.last.pressured
    /\ image.last.before > 0
    /\ image.last.before <= MAX_CONCURRENT_PROCESSING
    /\ image.last.status = 503
    /\ image.inFlight > 0

\* The launches made with the primary options before the fallback
PrimaryAttempts(config) ==
    IF config \in {"auto", "headless-shell"}
    THEN <<"headless-shell", "standard">>
    ELSE <<"standard">>

Suspends(c) == calls[c].pc = "idle" /\ calls'[c].pc # "idle"

\* The pool holds a connected browser with the fingerprint of target, an
\* available page and activePagesCount < maxPagesPerBrowser
ExactMatches(target) ==
    { i \in 1..Len(browsers) :
        browsers[i].connected /\ IsPerfectMatch(browsers[i], target) }

\* C21: exact-match preference.  A getPage call made while the pool holds a
\* connected browser with the request's fingerprint, an available page and
\* spare capacity is served from such a browser at once: no launch, no context
\* rebuilt, no page created, its availablePages only popped, whatever else is
\* in the list and in whatever order.
C21_ExactMatchServed ==
    [][/\ \A c \in Slots :
            (Suspends(c) /\ ExactMatches(calls'[c].target) # {}) => FALSE
       /\ (calls' = calls /\ Cardinality(held') = Cardinality(held) + 1) =>
            \E i \in 1..Len(browsers), h \in held' :
                /\ i \in ExactMatches(h.target)
                /\ h.browser = browsers[i].id
                /\ browsers'[i].context = browsers[i].context
                /\ browsers'[i].activePagesCount = browsers[i].activePagesCount + 1
                /\ Len(browsers'[i].availablePages) = Len(browsers[i].availablePages) - 1
      ]_vars

\* A connected browser with the fingerprint of target and spare capacity
MatchesWithCapacity(target) ==
    { i \in 1..Len(browsers) :
        /\ browsers[i].connected
        /\ IsCompatible(browsers[i], target)
        /\ browsers[i].activePagesCount < maxPagesPerBrowser }

\* C22: launch before repurpose.  A getPage call made while no connected
\* browser has the request's fingerprint and spare capacity, and the list
\* holds fewer than maxBrowsers browsers, launches a browser; it does not
\* rebuild the context of an existing one.
C22_LaunchBeforeRepurpose ==
    [][\A c \in Slots :
          (/\ Suspends(c)
           /\ MatchesWithCapacity(calls'[c].target) = {}
           /\ Len(browsers) < maxBrowsers)
          => calls'[c].pc = "launch"]_vars

\* The connected browsers of the list
Connected == { i \in 1..Len(browsers) : browsers[i].connected }

\* C23: repurpose at capacity.  A getPage call made while no connected
\* browser has the request's fingerprint and the list is at maxBrowsers
\* selects the connected browser with the smallest activePagesCount; its
\* context is replaced by one created for the request, its availablePages
\* emptied and the request's viewport / darkMode / mobile recorded on it, and
\* only then is a page created and handed out.
C23_RepurposeAtCapacity ==
    [][\A c \in Slots :
          /\ (/\ Suspends(c)
              /\ Len(browsers) >= maxBrowsers
              /\ Connected # {}
              /\ \A i \in Connected : ~IsCompatible(browsers[i], calls'[c].target))
             => /\ calls'[c].pc = "rebuild"
                /\ \E i \in Connected :
                      /\ calls'[c].bestBrowser = browsers[i].id
                      /\ \A j \in Connected :
                            browsers[i].activePagesCount <= browsers[j].activePagesCount
                /\ held' = held
          /\ (calls[c].pc = "rebuild" /\ calls'[c].pc # "rebuild") =>
                \/ calls'[c].pc = "idle" /\ held' = held /\ browsers' = browsers
                \/ /\ calls'[c].pc = "createPage"
                   /\ calls'[c].context = NewContext(calls[c].target)
                   /\ Cardinality(held') = Cardinality(held)
                   /\ \A i \in 1..Len(browsers) :
                         browsers[i].id = calls[c].bestBrowser =>
                            /\ browsers'[i].context = NewContext(calls[c].target)
                            /\ browsers'[i].availablePages = <<>>
                            /\ IsCompatible(browsers'[i], calls[c].target)
          /\ (calls[c].pc = "createPage" /\ calls[c].needsNewContext
                  /\ calls'[c].pc = "idle" /\ Cardinality(held') > Cardinality(held)) =>
                \E h \in held' : /\ h.browser = calls[c].bestBrowser
                                 /\ h.page.context.target = calls[c].target
                                 /\ ~h.reused
      ]_vars

\* at maxBrowsers, a request for a fingerprint no browser had was given a
\* page of the browser that was least loaded, rebuilt for it, while the
\* other browser still has a page checked out
C23_Witness ==
    /\ Len(browsers) = maxBrowsers
    /\ \E h \in held, i \in Connected :
          /\ h.browser = browsers[i].id
          /\ ~h.reused
          /\ h.page.context = browsers[i].context
          /\ IsCompatible(browsers[i], h.target)
          /\ h.target # Target(DefaultOptions)
          /\ browsers[i].availablePages = <<>>
          /\ \E j \in Connected : j # i /\ browsers[j].activePagesCount > 0

\* C24: counter consistency.  The activePagesCount of every pooled browser is
\* the number of pages getPage handed out from it that are not yet released,
\* and never negative; it goes up only by one, in a getPage that returns a
\* page, and down only by one, in a releasePage, and both set lastUsed to the
\* time of the call.
C24_CountsHandedOut ==
    \A i \in 1..Len(browsers) :
        /\ browsers[i].activePagesCount = Cardinality(HandlesOf(browsers[i].id))
        /\ browsers[i].activePagesCount >= 0
C24_CounterConsistency ==
    /\ []C24_CountsHandedOut
    /\ [][\A i \in 1..Len(browsers), j \in 1..Len(browsers') :
            (/\ browsers[i].id = browsers'[j].id
             /\ browsers'[j].activePagesCount # browsers[i].activePagesCount)
            => \/ /\ browsers'[j].activePagesCount = browsers[i].activePagesCount + 1
                  /\ Cardinality(held') = Cardinality(held) + 1
                  /\ browsers'[j].lastUsed = "fresh"
               \/ /\ browsers'[j].activePagesCount = browsers[i].activePagesCount - 1
                  /\ Cardinality(held') = Cardinality(held) - 1
                  /\ browsers'[j].lastUsed = "fresh"]_vars

\* after time had gone by, a page was taken again from availablePages: the
\* browser counts it and is fresh, the other browser is not
C24_Witness ==
    \E i, j \in 1..Len(browsers) :
        /\ browsers[i].activePagesCount = 1
        /\ browsers[i].lastUsed = "fresh"
        /\ \E h \in HandlesOf(browsers[i].id) : h.reused
        /\ browsers[j].lastUsed # "fresh"

\* C25: sweep conditions.  A run of cleanup calls close() on a browser and
\* leaves it out of the list only if the browser is disconnected, or has
\* activePagesCount = 0 and was last used more than browserIdleTimeout ago;
\* of a browser it keeps it closes the available pages, all of them, only if
\* the browser was last used more than pageIdleTimeout ago; no page that is
\* checked out from a connected browser is closed.
C25_SweepConditions ==
    [][(cleaning.pc = "idle" /\ cleaning'.pc = "await") =>
          /\ Len(browsers') = Len(browsers)
          /\ Cardinality(held') = Cardinality(held)
          /\ \A i \in 1..Len(browsers) :
                LET b == browsers[i]
                    kept == b.id \in SeqRange(cleaning'.keepBrowsers)
                IN  /\ ~kept => \/ ~b.connected
                                \/ (b.activePagesCount = 0 /\ b.lastUsed = "idle")
                    /\ (~kept /\ b.connected) => HandlesOf(b.id) = {}
                    /\ kept => \/ browsers'[i].availablePages = b.availablePages
                               \/ /\ b.lastUsed \in {"pageIdle", "idle"}
                                  /\ browsers'[i].availablePages = <<>>
      ]_vars

\* a run of cleanup is suspended after closing a browser that was idle with no
\* page out, and the idle pages of a browser it keeps because a page is out
C25_Witness ==
    /\ cleaning.pc = "await"
    /\ \E i, j \in 1..Len(browsers) :
          /\ browsers[i].id \notin SeqRange(cleaning.keepBrowsers)
          /\ browsers[i].connected
          /\ browsers[i].activePagesCount = 0
          /\ browsers[i].lastUsed = "idle"
          /\ browsers[j].id \in SeqRange(cleaning.keepBrowsers)
          /\ browsers[j].activePagesCount > 0
          /\ browsers[j].lastUsed # "fresh"

\* C26: leak reclamation.  When a caller never releases a page it obtained,
\* repeated runs of cleanup eventually close the browser holding that page
\* and remove it from the list.
C26_LeakReclaimed ==
    (held # {}) ~> (\A h \in held : ~InPool(h.browser))

\* C27: reset on reuse.  Every page getPage takes from availablePages has
\* been navigated to about:blank before it is returned to the caller.
C27_ResetOnReuse ==
    \A h \in held : h.reused => h.reset

\* The takeScreenshotWithRetry call under way has not settled
Retrying == retry.pc \in {"attempt", "delay"}

\* C28: takeScreenshotWithRetry(options, maxRetries) makes at most
\* maxRetries + 1 calls of takeScreenshot and then settles; it returns on the
\* first attempt that succeeds; it waits 500 ms after a failed attempt only
\* when another attempt follows; when every attempt failed it throws the
\* error of the last one, and no page of any attempt is still checked out.
C28_Bounded ==
    /\ retry.calls <= retry.maxRetries + 1
    /\ retry.calls = (IF retry.pc = "idle" \/ retry.maxRetries < 0 THEN 0
                      ELSE retry.attempt + 1)
    /\ \A i \in 1..Len(retry.waits) : retry.waits[i] = RetryDelayMs
    /\ Len(retry.waits) = (IF retry.pc = "delay" THEN retry.calls
                           ELSE IF retry.calls = 0 THEN 0 ELSE retry.calls - 1)
    /\ retry.pc = "delay" => retry.calls <= retry.maxRetries
    /\ (retry.pc = "threw" /\ retry.maxRetries >= 0) =>
            /\ retry.calls = retry.maxRetries + 1
            /\ retry.thrown.attempt = retry.maxRetries
            /\ retry.thrown.message # "none"
    /\ retry.pc \in {"returned", "threw", "delay"} =>
            /\ held = {}
            /\ \A i \in 1..Len(browsers) : browsers[i].activePagesCount = 0
C28_ReturnsFirstSuccess ==
    [][ /\ (retry.pc = "attempt" /\ held # {} /\ held' = {}
                /\ lastResult' = "resolved")
            => (retry'.pc = "returned" /\ retry'.calls = retry.calls)
        /\ (retry.pc = "returned" /\ retry' # retry)
            => (retry'.attempt = 0 /\ retry'.calls <= 1)
      ]_vars
C28_BoundedRetry ==
    /\ []C28_Bounded
    /\ C28_ReturnsFirstSuccess
    /\ (Retrying ~> ~Retrying)
C28_Witness ==
    /\ retry.pc = "threw"
    /\ retry.maxRetries = MaxRetries
    /\ retry.calls = MaxRetries + 1
    /\ Len(retry.waits) = MaxRetries
    /\ retry.thrown = [attempt |-> MaxRetries, message |-> "Timeout 10000ms exceeded"]

\* Positions of the drivers called `name` in the layer list
Positions(name) ==
    { i \in 1..Len(layers.layers) : layers.layers[i].name = name }

C30_RunCallsAll ==
    manager.sweeps > 0 =>
        /\ manager.run.invoked = manager.run.callbacks
        /\ Len(manager.run.promises) = Len(manager.run.callbacks)
        /\ \A i \in 1..Len(manager.run.promises) :
                manager.run.promises[i] = "fulfilled"
        /\ manager.run.result = "fulfilled"
C30_CleanupIsolation ==
    /\ []C30_RunCallsAll
    /\ [][manager'.sweeps > manager.sweeps =>
            /\ manager'.run.callbacks = manager.cleanupCallbacks
            /\ \A cb \in Callbacks :
                 manager'.invoked[cb] =
                    manager.invoked[cb] + Count(manager.cleanupCallbacks, cb)]_vars
C30_Witness ==
    /\ manager.sweeps > 0
    /\ manager.run.callbacks = <<"pool", "ipx">>
    /\ manager.run.outcomes = <<"rejected", "fulfilled">>
    /\ manager.run.invoked = <<"pool", "ipx">>
    /\ manager.run.result = "fulfilled"
    /\ ~image.cachedIPXInstance

\* The calls the handler of the request under way has made, by name
CaptureOps == [i \in 1..Len(capture.events) |-> capture.events[i].op]

\* C31: a request answered from the cache (X-Cache: HIT) has called get and
\* neither getPage nor set; a request answered X-Cache: MISS has called get,
\* then getPage, rendered, then set under the key it looked up; a request
\* whose render failed (or whose getPage threw) has called no set.
C31_CacheAside ==
    capture.done =>
        /\ (response.status = 200 /\ response.xCache = "HIT") =>
                capture.events = <<Event("get", capture.key)>>
        /\ (response.status = 200 /\ response.xCache = "MISS") =>
                capture.events = <<Event("get", capture.key), Event("getPage", ""),
                                   Event("render", "ok"), Event("set", capture.key)>>
        /\ (\E i \in 1..Len(capture.events) : capture.events[i].op = "set") =>
                /\ Len(capture.events) = 4
                /\ capture.events[3] = Event("render", "ok")
                /\ capture.events[4].arg = capture.events[1].arg
        /\ response.status = 200 => response.xCache \in {"HIT", "MISS"}
        /\ response.details \in {"Timeout 10000ms exceeded", "Navigation failed",
                                 "No available browsers in pool",
                                 "Browser launch failed", "Target closed"} =>
                \A i \in 1..Len(capture.events) : capture.events[i].op # "set"
C31_Witness ==
    /\ capture.done
    /\ response = Ok200("MISS")
    /\ capture.key = RequestKey("b.io", DefaultOptions)
    /\ CaptureOps = <<"get", "getPage", "render", "set">>

\* C32: after clearCacheByType(T) the store holds what it held before minus
\* every entry written through cacheStorage[T], and nothing after
\* clearCacheByType("all").
C32_ClearByType ==
    store.cleared # "none" =>
        store.entries = IF store.cleared = "all" THEN {}
                        ELSE { e \in store.before : e.via # store.cleared }

\* C33: repurposing spares active callers.  A getPage call that goes on to
\* close a browser's context for a rebuild has chosen a browser none of
\* whose pages is checked out: its activePagesCount is 0.
C33_RepurposeSparesActive ==
    [][\A c \in Slots :
          (Suspends(c) /\ calls'[c].pc = "rebuild") =>
             \A i \in 1..Len(browsers) :
                browsers[i].id = calls'[c].bestBrowser =>
                   /\ browsers[i].activePagesCount = 0
                   /\ HandlesOf(browsers[i].id) = {}]_vars

\* C34: available-set consistency.  Every page in a browser's availablePages
\* was created in the context that browser has now, and the viewport,
\* isDarkMode and isMobile recorded on the browser are those its context was
\* created with.
C34_AvailableConsistent ==
    \A i \in 1..Len(browsers) :
        /\ \A j \in 1..Len(browsers[i].availablePages) :
              /\ browsers[i].availablePages[j].context.current
              /\ browsers[i].availablePages[j].context = browsers[i].context
        /\ IsCompatible(browsers[i], browsers[i].context.target)

\* C35: processingCount is the number of /img/* requests between their
\* increment and their finally-decrement, and is never negative, also after
\* the cleanup callback ran while requests were in flight.
C35_InFlightCounter ==
    /\ image.processingCount = image.inFlight
    /\ image.processingCount >= 0

\* C36: never more than MAX_CONCURRENT_PROCESSING image requests are
\* admitted and in flight at once: a request arriving while that many are
\* in flight is answered 503.
C36_ConcurrencyCap ==
    /\ [](image.inFlight <= MAX_CONCURRENT_PROCESSING)
    /\ [][(image'.arrived > image.arrived
              /\ image.inFlight >= MAX_CONCURRENT_PROCESSING)
          => (image'.last.status = 503 /\ image'.inFlight = image.inFlight)]_vars

\* C37: no launched browser becomes untracked without having been closed.
\* A browser that leaves the browsers list is one cleanup or shutdown has
\* called close() on, also when getPage pushed it while cleanup or shutdown
\* was awaiting its close operations.
C37_NoUntrackedBrowser ==
    [][\A i \in 1..Len(browsers) :
          (\A j \in 1..Len(browsers') : browsers'[j].id # browsers[i].id) =>
              browsers[i].id \in cleaning.closed \cup shutdown.attempted]_vars

\* C38: no hand-out from a swept browser.  As long as no browser has crashed
\* and no shutdown has begun, every page getPage returns is backed by a
\* browser of the list (the one whose activePagesCount it counts the page
\* on) that cleanup has not called close() on.
C38_NoHandOutFromSwept ==
    [][(/\ Cardinality(held') > Cardinality(held)
        /\ crashes = 0
        /\ shutdown.pc = "idle")
       => \E i \in 1..Len(browsers) :
              /\ Len(browsers') = Len(browsers)
              /\ browsers'[i].activePagesCount = browsers[i].activePagesCount + 1
              /\ browsers[i].id \notin cleaning.closed]_vars

\* C39: a getPage that throws from one of its awaits changes no browser's
\* activePagesCount and leaves every pooled browser with a live context that
\* matches its recorded fingerprint and with only pages of that context in
\* availablePages (stated as: a pool that was in that condition before the
\* failure is in it afterwards).
LiveAndMatching(b) ==
    /\ b.context.current
    /\ b.context.target.viewport = b.viewport
    /\ b.context.target.isDarkMode = b.isDarkMode
    /\ b.context.target.isMobile = b.isMobile
    /\ \A j \in 1..Len(b.availablePages) : b.availablePages[j].context = b.context

PoolUsable(bs) == \A i \in 1..Len(bs) : LiveAndMatching(bs[i])

GetPageThrows(c) ==
    /\ calls[c].pc \in {"launch", "rebuild", "createPage"}
    /\ calls'[c].pc = "idle"
    /\ Cardinality(held') = Cardinality(held)

C39_FailedAcquisitionHarmless ==
    [][\A c \in Slots :
          GetPageThrows(c) =>
              /\ Len(browsers') = Len(browsers)
              /\ \A i \in 1..Len(browsers) :
                     browsers'[i].activePagesCount = browsers[i].activePagesCount
              /\ PoolUsable(browsers) => PoolUsable(browsers')]_vars

\* C40: the list getCachedFontsList returns for a (provider, config) is one
\* that was fetched or cached for that same (provider, config), never a list
\* obtained for a different provider.
C40_PerProviderFontsList ==
    fonts.last.returned # Null =>
        /\ fonts.last.returned.provider = fonts.last.provider
        /\ fonts.last.returned.config = fonts.last.config

====
